---- MODULE Spec2Model ----
(***************************************************************************)
(* A model of tatetian/sysfs-poc: the SysTree (the in-kernel model: nodes, *)
(* attribute sets and values, child maps of branches, the event hub) and   *)
(* SysFs (the inode view projected from it: lookup, readdir_at, attribute  *)
(* I/O, metadata and the operations the view refuses).                     *)
(***************************************************************************)
EXTENDS Integers, Sequences, FiniteSets, TLC

VARIABLES
    NEXT_ID,    \* SysNodeId::new's static counter
    nodes,      \* node id -> the node's immutable fields (type, name, attr_set)
    children,   \* node id -> the branch's BTreeMap<SysStr, Arc<C>> (name -> node id)
    inodes,     \* the SysFsInode objects allocated so far, by handle (1 = root)
    alive,      \* handles of the inodes that still have a strong reference
    made_by,    \* handle -> the inode whose lookup allocated it (NoParent: new_root)
    ret,        \* the last add_child / remove_child / lookup call: its arguments, its
                \* result and (pre) the branch's child map when it was called
    gone,       \* the last remove_child(name) on a branch (on) that no add_child of
                \* a node of that name on that branch has followed
    rd,         \* outcome of the last readdir_at call
    watch,      \* which calls the observer notes: "tree" and "lookup" in ret,
                \* "gone" in gone, "readdir" in rd, "ops" in out, "era" in era
    vals,       \* node id -> attribute name -> the value the node keeps for it
    now,        \* what RealTimeCoarseClock reads
    out,        \* the last call of an inode operation other than lookup and
                \* readdir_at, or of a node's read_attr / write_attr
    subject,    \* the event hub's Subject: registered observer -> its selector
    live,       \* the observers that still have a strong reference
    inbox,      \* observer -> the events it was notified of, oldest first
    log,        \* the publish_event calls made so far, oldest first
    bld,        \* a SysAttrSetBuidler in use: the builder, the build it runs in,
                \* its last add call and the set it was built into
    ids,        \* thread -> where it is in SysNodeId::new, the value its fetch_add
                \* returned, and the ids its calls returned so far
    calc,       \* node ids and an attribute id, and the inos computed of them
    scan,       \* a readdir_at call that runs step by step
    walk,       \* a caller's enumeration of a directory by readdir_at calls
    era,        \* the child maps there have been since a scan or a walk began
    race        \* two add_child calls on one branch and a reader of its child
                \* map, step by step, and the RwMutex of the child map

\* The variables of the event hub.
hubvars == <<subject, live, inbox, log>>

\* The variables of the parts that are driven on their own.
ownvars == <<bld, ids, calc, scan, walk, race>>

unitvars == <<ownvars, era>>

vars ==
    <<NEXT_ID, nodes, children, inodes, alive, made_by, ret, gone, rd, watch,
      vals, now, out, hubvars, unitvars>>

----------------------------------------------------------------------------
(* Bounds of the model *)

\* Ino and SysNodeId are u64 in the source; the model narrows them to InoBits bits.
InoBits == 12

\* How many SysFsInode objects are ever allocated (the root inode included).
MaxInodes == 3

U64_MAX == 2^InoBits - 1

----------------------------------------------------------------------------
(* systree: attributes and nodes *)

None == "None"

CAN_READ == "CAN_READ"
CAN_WRITE == "CAN_WRITE"

SysAttr(id, name, flags) == [id |-> id, name |-> name, flags |-> flags]

\* SysAttrSet::new_empty
new_empty == << >>

\* The attribute set a SysAttrSetBuilder yields for add("x", RW); add("y", R).
AttrsXY == << SysAttr(0, "x", {CAN_READ, CAN_WRITE}), SysAttr(1, "y", {CAN_READ}) >>

\* The attribute set a SysAttrSetBuilder yields for add("x", R).
AttrsX == << SysAttr(0, "x", {CAN_READ}) >>

\* SysTreeRoot::new: the root is a branch with the empty name and no attributes.
SysTreeRoot ==
    [type |-> "Branch", name |-> "", attr_set |-> new_empty, target_path |-> None]

\* The nodes the controllers have constructed (SysObjFields::new gave them the
\* ids 1, 2, 3 after the root's 0): a branch with two attributes, a leaf whose
\* name is also the name of an attribute of the branch, and a symlink with the
\* same name as the leaf.  The branch's name sorts after the others' while its
\* id is the smallest, so the order by name and the order by id differ.  Only the
\* symlink (a SymlinkNode) has a target path.
Cast ==
    [id \in 0..3 |->
        CASE id = 0 -> SysTreeRoot
          [] id = 1 -> [type |-> "Branch", name |-> "z", attr_set |-> AttrsXY,
                        target_path |-> None]
          [] id = 2 -> [type |-> "Leaf", name |-> "x", attr_set |-> AttrsX,
                        target_path |-> None]
          [] id = 3 -> [type |-> "Symlink", name |-> "x", attr_set |-> new_empty,
                        target_path |-> "/z"]]

NodeIds == DOMAIN nodes

Branches == {b \in NodeIds : nodes[b].type = "Branch"}

\* The names a caller passes to lookup: the nodes' names, of which x is also the
\* name of an attribute, and the two special entries.
Names == {"z", "x", ".", ".."}

\* The names a caller passes to remove_child: the nodes' names, and one that no
\* node has.
ChildNames == {"z", "x", "."}

----------------------------------------------------------------------------
(* systree::utils::SysBranchNodeFields: the child map *)

EmptyMap == [n \in {} |-> 0]

\* BTreeMap::insert
insert(map, key, val) ==
    [k \in DOMAIN map \cup {key} |-> IF k = key THEN val ELSE map[k]]

\* BTreeMap::remove: the map without the key
remove(map, key) == [k \in DOMAIN map \ {key} |-> map[k]]

\* SysBranchNodeFields::contains
contains(b, child_name) == child_name \in DOMAIN children[b]

\* add_child with the check for an existing name left out.
add_child_no_check(b, new_child) ==
    [map |-> insert(children[b], nodes[new_child].name, new_child), res |-> "Ok"]

\* SysBranchNodeFields::add_child: the new map and the result.
add_child(b, new_child) ==
    LET name == nodes[new_child].name IN
    IF name \in DOMAIN children[b]
    THEN [map |-> children[b], res |-> "ALREADY_EXISTS"]
    ELSE [map |-> insert(children[b], name, new_child), res |-> "Ok"]

\* remove_child that returns the child and leaves it in the map.
remove_child_keeps(b, child_name) ==
    [map |-> children[b],
     res |-> IF child_name \in DOMAIN children[b] THEN {children[b][child_name]} ELSE {}]

\* SysBranchNodeFields::remove_child: the new map and the removed node, if any
\* (an Option is the set of what it holds).
remove_child(b, child_name) ==
    [map |-> remove(children[b], child_name),
     res |-> IF child_name \in DOMAIN children[b] THEN {children[b][child_name]} ELSE {}]

\* What a call saw when it was made.  add_child and remove_child: the branch's
\* child map (kids).  lookup: the node the directory's branch held under the name
\* (held, 0 for none), whether the inode that made this inode was still alive,
\* and whether gone named this directory's branch and this name.
Saw(kids, held, maker_alive, after_remove) ==
    [kids |-> kids, held |-> held, maker_alive |-> maker_alive,
     after_remove |-> after_remove]

\* What ret notes of a call: the operation, the branch or inode it was called on,
\* its node and name arguments, its result (res, and val: the node removed or the
\* inode returned), and what the call saw.
Note(op, on, node, name, res, val, saw) ==
    [op |-> op, on |-> on, node |-> node, name |-> name, res |-> res, val |-> val,
     saw |-> saw]

NoRet == Note("none", 0, 0, None, None, 0, Saw(EmptyMap, 0, FALSE, FALSE))

\* No remove_child is being followed.
NoGone == [on |-> 0, name |-> None, node |-> 0]

\* What era holds after a call that leaves the child maps as kids: era follows
\* the child maps while a scan or a walk is under way.
Since(kids) ==
    IF "era" \in watch /\ (scan.pc \in {"called", "collected"} \/ walk.pc = "going")
    THEN era \cup {kids} ELSE era

\* A call of add_child.  An add_child of a node named n on b ends the period
\* "since remove_child(n) on b" that gone follows.
AddChild(b, c) ==
    /\ children' = [children EXCEPT ![b] = add_child(b, c).map]
    /\ ret' = IF "tree" \in watch
              THEN Note("add_child", b, c, nodes[c].name, add_child(b, c).res, 0,
                        Saw(children[b], 0, FALSE, FALSE))
              ELSE ret
    /\ gone' = IF gone.on = b /\ gone.name = nodes[c].name THEN NoGone ELSE gone
    /\ era' = Since(children')
    /\ UNCHANGED <<NEXT_ID, nodes, inodes, alive, made_by, rd, watch,
                   vals, now, out, hubvars, ownvars>>

\* A call of remove_child.
RemoveChild(b, name) ==
    /\ children' = [children EXCEPT ![b] = remove_child(b, name).map]
    /\ ret' = LET removed == remove_child(b, name).res IN
               IF "tree" \notin watch THEN ret
               ELSE IF removed = {}
               THEN Note("remove_child", b, 0, name, "None", 0,
                         Saw(children[b], 0, FALSE, FALSE))
               ELSE Note("remove_child", b, 0, name, "Some",
                         CHOOSE c \in removed : TRUE, Saw(children[b], 0, FALSE, FALSE))
    /\ gone' = LET removed == remove_child(b, name).res IN
                IF "gone" \notin watch THEN gone
                ELSE [on |-> b, name |-> name,
                      node |-> IF removed = {} THEN 0 ELSE CHOOSE c \in removed : TRUE]
    /\ era' = Since(children')
    /\ UNCHANGED <<NEXT_ID, nodes, inodes, alive, made_by, rd, watch,
                   vals, now, out, hubvars, ownvars>>

----------------------------------------------------------------------------
(* sysfs::inode::ino: inode numbers *)

ATTR_INO_SHIFT == 8

from_sysnode_id(node_id) == (node_id * 2^ATTR_INO_SHIFT) % 2^InoBits

from_dir_ino_and_attr_id(dir_ino, attr_id) == (dir_ino + attr_id) % 2^InoBits

\* SysAttrSet::iter: the attributes in the order of their ids.
iter(attr_set) == attr_set

\* SysAttrSet::get
get(attr_set, attr_name) ==
    LET hits == {i \in 1..Len(attr_set) : attr_set[i].name = attr_name} IN
    IF hits = {} THEN {} ELSE {attr_set[CHOOSE i \in hits : TRUE]}

Branch(node) == [kind |-> "Branch", node |-> node, attr |-> None]
Leaf(node) == [kind |-> "Leaf", node |-> node, attr |-> None]
Symlink(node) == [kind |-> "Symlink", node |-> node, attr |-> None]
Attr(attr, node) == [kind |-> "Attr", node |-> node, attr |-> attr.name]

from_inner_node(inner_node) ==
    IF inner_node.kind = "Attr"
    THEN LET dir_ino == from_sysnode_id(inner_node.node)
             set == iter(nodes[inner_node.node].attr_set)
             attr_id == set[CHOOSE i \in 1..Len(set) : set[i].name = inner_node.attr].id
         IN from_dir_ino_and_attr_id(dir_ino, attr_id)
    ELSE from_sysnode_id(inner_node.node)

----------------------------------------------------------------------------
(* sysfs::inode::SysFsInode *)

\* Weak::new(): a parent that never upgrades.
NoParent == 0

\* The three timestamps are what the clock reads; size, uid and gid are the
\* defaults of Metadata.
new_metadata(ino, type_) ==
    [ino |-> ino, type_ |-> type_, atime |-> now, mtime |-> now, ctime |-> now,
     size |-> 0, uid |-> 0, gid |-> 0]

\* An InodeMode written as its three octal digits (0o<u><g><o>).
Octal(u, g, o) == u * 64 + g * 8 + o

S_IRUSR == Octal(4, 0, 0)

S_IWUSR == Octal(2, 0, 0)

\* The bits are distinct, so or-ing them in is adding them.
flags_to_inode_mode(attr_flags) ==
    (IF CAN_READ \in attr_flags THEN S_IRUSR ELSE 0)
        + (IF CAN_WRITE \in attr_flags THEN S_IWUSR ELSE 0)

\* do_new_dir for a directory whose parent pointer is left empty.
do_new_dir_orphan(inner_node, parent) ==
    [inner_node |-> inner_node,
     metadata |-> new_metadata(from_inner_node(inner_node), "Dir"),
     mode |-> Octal(5, 5, 5), parent |-> NoParent]

do_new_dir(inner_node, parent) ==
    [inner_node |-> inner_node,
     metadata |-> new_metadata(from_inner_node(inner_node), "Dir"),
     mode |-> Octal(5, 5, 5), parent |-> parent]

new_branch_dir(self, sysnode) == do_new_dir(Branch(sysnode), self)

new_leaf_dir(self, sysnode) == do_new_dir(Leaf(sysnode), self)

\* new_attr_file with the inode type of do_new_dir.
new_attr_file_as_dir(self, attr, sysnode) ==
    [inner_node |-> Attr(attr, sysnode),
     metadata |-> new_metadata(from_inner_node(Attr(attr, sysnode)), "Dir"),
     mode |-> flags_to_inode_mode(attr.flags), parent |-> self]

new_attr_file(self, attr, sysnode) ==
    [inner_node |-> Attr(attr, sysnode),
     metadata |-> new_metadata(from_inner_node(Attr(attr, sysnode)), "File"),
     mode |-> flags_to_inode_mode(attr.flags), parent |-> self]

new_symlink(self, sysnode) ==
    [inner_node |-> Symlink(sysnode),
     metadata |-> new_metadata(from_inner_node(Symlink(sysnode)), "Symlink"),
     mode |-> Octal(4, 4, 4), parent |-> self]

\* SysFsInode::new_root; SysFs::new keeps the only strong reference to it.
new_root == do_new_dir(Branch(0), NoParent)

RootInode == 1

\* Weak::upgrade of an inode's parent pointer
upgrade(parent) == IF parent \in alive THEN {parent} ELSE {}

\* A lookup yields an error, an inode that exists (by handle) or a new inode.
Err(errno) == [tag |-> "err", val |-> errno]
Old(handle) == [tag |-> "old", val |-> handle]
New(inode) == [tag |-> "new", val |-> inode]

\* SysBranchNode::child
child(sysnode, name) ==
    IF name \in DOMAIN children[sysnode] THEN {children[sysnode][name]} ELSE {}

lookup_attr(self, name, sysnode) ==
    LET found == get(nodes[sysnode].attr_set, name) IN
    IF found = {} THEN Err("ENOENT")
    ELSE New(new_attr_file(self, CHOOSE attr \in found : TRUE, sysnode))

\* The arms of lookup_node_or_attr's match on the child's type.
new_child_inode(self, child_sysnode) ==
    CASE nodes[child_sysnode].type = "Branch" -> new_branch_dir(self, child_sysnode)
      [] nodes[child_sysnode].type = "Leaf" -> new_leaf_dir(self, child_sysnode)
      [] nodes[child_sysnode].type = "Symlink" -> new_symlink(self, child_sysnode)

\* lookup_node_or_attr with the attributes searched before the children.
lookup_attr_or_node(self, name, sysnode) ==
    LET found == child(sysnode, name) IN
    IF get(nodes[sysnode].attr_set, name) # {} \/ found = {}
    THEN lookup_attr(self, name, sysnode)
    ELSE New(new_child_inode(self, CHOOSE child_sysnode \in found : TRUE))

lookup_node_or_attr(self, name, sysnode) ==
    LET found == child(sysnode, name) IN
    IF found # {}
    THEN New(new_child_inode(self, CHOOSE child_sysnode \in found : TRUE))
    ELSE lookup_attr(self, name, sysnode)

type_(self) == inodes[self].metadata.type_

ino(self) == inodes[self].metadata.ino

lookup(self, name) ==
    IF type_(self) # "Dir" THEN Err("ENOTDIR")
    ELSE IF name = "." THEN Old(self)
    ELSE IF name = ".."
        THEN Old(IF upgrade(inodes[self].parent) = {}
                 THEN self ELSE inodes[self].parent)
    ELSE IF inodes[self].inner_node.kind = "Branch"
        THEN lookup_node_or_attr(self, name, inodes[self].inner_node.node)
    ELSE lookup_attr(self, name, inodes[self].inner_node.node)

\* A lookup by someone who holds the inode.  A new inode takes the next handle;
\* made_by notes the inode whose lookup made it.
Lookup(self, name) ==
    LET r == lookup(self, name)
        h == Len(inodes) + 1
    IN  /\ self \in alive
        /\ r.tag = "new" => Len(inodes) < MaxInodes
        /\ inodes' = IF r.tag = "new" THEN Append(inodes, r.val) ELSE inodes
        /\ alive' = IF r.tag = "new" THEN alive \cup {h} ELSE alive
        /\ made_by' = IF r.tag = "new" THEN Append(made_by, self) ELSE made_by
        /\ ret' = IF "lookup" \notin watch THEN ret ELSE
                   Note("lookup", self, 0, name,
                        IF r.tag = "err" THEN r.val ELSE "Ok",
                        CASE r.tag = "err" -> 0 [] r.tag = "old" -> r.val [] r.tag = "new" -> h,
                        Saw(EmptyMap,
                            IF /\ inodes[self].inner_node.kind = "Branch"
                               /\ name \in DOMAIN children[inodes[self].inner_node.node]
                            THEN children[inodes[self].inner_node.node][name] ELSE 0,
                            made_by[self] \in alive,
                            /\ inodes[self].inner_node.kind = "Branch"
                            /\ gone.on = inodes[self].inner_node.node
                            /\ gone.name = name))
        /\ UNCHANGED <<NEXT_ID, nodes, children, gone, rd, watch,
                       vals, now, out, hubvars, unitvars>>

\* The last strong reference to a directory inode other than the root's is
\* dropped (only a directory inode is another inode's parent).
DropInode(self) ==
    /\ self \in alive \ {RootInode}
    /\ type_(self) = "Dir"
    /\ alive' = alive \ {self}
    /\ UNCHANGED <<NEXT_ID, nodes, children, inodes, made_by, ret, gone, rd, watch,
                   vals, now, out, hubvars, unitvars>>

----------------------------------------------------------------------------
(* sysfs::inode::SysFsInode::readdir_at *)

\* The most entries a visitor accepts before it rejects one, unless it accepts all.
MaxAccept == 2

Dentry(ino_, name, type) == [ino |-> ino_, name |-> name, type_ |-> type]

\* The elements of a set of numbers, ascending.
RECURSIVE ascending(_)
ascending(S) ==
    IF S = {} THEN << >>
    ELSE LET least == CHOOSE x \in S : \A y \in S : x <= y
         IN  << least >> \o ascending(S \ {least})

\* SysBranchNode::visit_children_with: the children whose ids are no less than
\* min_id, in the order of their ids.
visit_children_with(sysnode, min_id) ==
    ascending({c \in {children[sysnode][k] : k \in DOMAIN children[sysnode]} :
                    c >= min_id})

\* AttrDentryIter: the attributes' dentries, but those whose ino is below min_ino.
AttrDentryIter(attr_set, dir_ino, min_ino) ==
    LET attrs == iter(attr_set)
        dentry(i) == Dentry(from_dir_ino_and_attr_id(dir_ino, attrs[i].id),
                            attrs[i].name, "File")
    IN  SelectSeq([i \in 1..Len(attrs) |-> dentry(i)], LAMBDA d : d.ino >= min_ino)

\* NodeDentryIter that passes over a collected child node once no child map
\* holds it.
NodeDentryIter_live(child_nodes) ==
    LET held == SelectSeq(child_nodes,
                          LAMBDA c : \E b \in DOMAIN children :
                                        \E n \in DOMAIN children[b] : children[b][n] = c)
    IN  [i \in 1..Len(held) |->
            Dentry(from_sysnode_id(held[i]), nodes[held[i]].name,
                   IF nodes[held[i]].type = "Symlink" THEN "Symlink" ELSE "Dir")]

\* NodeDentryIter: the dentries of the collected child nodes.
NodeDentryIter(child_nodes) ==
    [i \in 1..Len(child_nodes) |->
        Dentry(from_sysnode_id(child_nodes[i]), nodes[child_nodes[i]].name,
               IF nodes[child_nodes[i]].type = "Symlink" THEN "Symlink" ELSE "Dir")]

THIS_DENTRY_INO == U64_MAX - 2

PARENT_DENTRY_INO == U64_MAX - 1

\* ThisAndParentDentryIter: "." with this directory's ino, then ".." with the ino
\* of the parent, or of this directory when the parent is gone.
ThisAndParentDentryIter(this_dir, min_ino) ==
    LET this_dir_ino == ino(this_dir)
        parent == upgrade(inodes[this_dir].parent)
        parent_dir_ino == IF parent = {} THEN this_dir_ino
                          ELSE ino(CHOOSE p \in parent : TRUE)
        this == Dentry(this_dir_ino, ".", "Dir")
        up == Dentry(parent_dir_ino, "..", "Dir")
    IN  IF min_ino <= THIS_DENTRY_INO THEN << this, up >>
        ELSE IF min_ino <= PARENT_DENTRY_INO THEN << up >>
        ELSE << >>

\* new_dentry_iter with the two special entries chained before the child nodes.
new_dentry_iter_specials_first(self, min_ino) ==
    LET sysnode == inodes[self].inner_node.node
        collected == IF inodes[self].inner_node.kind = "Branch"
                     THEN SelectSeq(visit_children_with(sysnode, min_ino),
                                    LAMBDA c : c >= min_ino)
                     ELSE << >>
    IN  AttrDentryIter(nodes[sysnode].attr_set, ino(self), min_ino)
            \o ThisAndParentDentryIter(self, min_ino)
            \o NodeDentryIter(collected)

\* new_dentry_iter, its one call of visit_children_with: the children that the
\* closure pushes to child_nodes.  It keeps a child when its id, not its ino, is
\* no less than min_ino.
collect_child_nodes(self, min_ino) ==
    LET sysnode == inodes[self].inner_node.node
    IN  IF inodes[self].inner_node.kind = "Branch"
        THEN SelectSeq(visit_children_with(sysnode, min_ino), LAMBDA c : c >= min_ino)
        ELSE << >>

\* new_dentry_iter, the chain of iterators it returns, over the child nodes
\* that were collected.
chain(self, min_ino, child_nodes) ==
    LET sysnode == inodes[self].inner_node.node
    IN  AttrDentryIter(nodes[sysnode].attr_set, ino(self), min_ino)
            \o NodeDentryIter(child_nodes)
            \o ThisAndParentDentryIter(self, min_ino)

\* new_dentry_iter: the dentries of a directory (Branch or Leaf) from min_ino on.
new_dentry_iter(self, min_ino) ==
    chain(self, min_ino, collect_child_nodes(self, min_ino))

\* A DirentVisitor: one that accepts every entry (all), or one that accepts n
\* entries and rejects the next.
Visitors ==
    {[all |-> TRUE, n |-> 0]} \cup {[all |-> FALSE, n |-> k] : k \in 0..MaxAccept}

\* How many entries the visitor takes of those the iterator yields.
accepted(visitor, emitted) ==
    IF visitor.all \/ visitor.n >= Len(emitted) THEN Len(emitted) ELSE visitor.n

\* What rd notes of a readdir_at call: the inode, the offset and the visitor, what
\* the iterator yielded (emitted), how many entries the visitor accepted (count),
\* the result (res, val), and the child map of the directory's node at the call.
Read(on, offset, visitor, emitted, count, res, val, kids) ==
    [op |-> "readdir_at", on |-> on, off |-> offset, visitor |-> visitor,
     emitted |-> emitted, count |-> count, res |-> res, val |-> val, kids |-> kids]

\* No readdir_at call was made.
NoRead ==
    [Read(0, 0, [all |-> TRUE, n |-> 0], << >>, 0, None, 0, EmptyMap)
        EXCEPT !.op = "none"]

\* SysFsInode::readdir_at, its loop over the iterator and its return value: the
\* outcomes of a call whose iterator yields emitted.  next_call_min_ino - min_ino
\* is a subtraction of unsigned numbers: when it would go below zero, a build
\* with overflow checks panics and a build without them wraps around.
visit_all(self, offset, visitor, emitted, kids) ==
    LET min_ino == offset
        count == accepted(visitor, emitted)
        last_dentry_ino == emitted[count].ino
        next_call_min_ino == last_dentry_ino + 1
    IN  IF count = 0 /\ Len(emitted) > 0
        THEN {Read(self, offset, visitor, emitted, 0, "EINVAL", 0, kids)}
        ELSE IF count = 0
        THEN {Read(self, offset, visitor, emitted, 0, "Ok", 0, kids)}
        ELSE IF next_call_min_ino >= min_ino
        THEN {Read(self, offset, visitor, emitted, count, "Ok",
                   next_call_min_ino - min_ino, kids)}
        ELSE {Read(self, offset, visitor, emitted, count, "panic", 0, kids),
              Read(self, offset, visitor, emitted, count, "Ok",
                   (next_call_min_ino - min_ino) % 2^InoBits, kids)}

\* SysFsInode::readdir_at: the outcomes of a call.
readdir_at(self, offset, visitor) ==
    IF type_(self) # "Dir"
    THEN {Read(self, offset, visitor, << >>, 0, "ENOTDIR", 0, EmptyMap)}
    ELSE visit_all(self, offset, visitor, new_dentry_iter(self, offset),
                   children[inodes[self].inner_node.node])

\* A readdir_at call by someone who holds the inode.
ReaddirAt(self, offset, visitor) ==
    /\ self \in alive
    /\ \E outcome \in readdir_at(self, offset, visitor) :
            rd' = IF "readdir" \in watch THEN outcome ELSE rd
    /\ UNCHANGED <<NEXT_ID, nodes, children, inodes, alive, made_by, ret, gone, watch,
                   vals, now, out, hubvars, unitvars>>

\* The offsets a caller passes to readdir_at: around the inos of the directories
\* and of their attributes, the ids of the nodes, the two special inos, and the
\* offset the last call's return value leads to.
Offsets ==
    {0, 1, 2} \cup {from_sysnode_id(1) + k : k \in 0..1}
        \cup {THIS_DENTRY_INO, PARENT_DENTRY_INO, U64_MAX}
        \cup (IF rd.res = "Ok" /\ rd.off + rd.val <= U64_MAX
              THEN {rd.off + rd.val} ELSE {})

----------------------------------------------------------------------------
(* systree::node::SysNode: reading and writing an attribute of a node *)

\* The values a reader's buffer holds are 0..MaxVal.
MaxVal == 1

Values == 0..MaxVal

\* Every attribute of every node of the cast holds 0 until it is written.
NoVals ==
    [n \in DOMAIN Cast |->
        [a \in {Cast[n].attr_set[i].name : i \in 1..Len(Cast[n].attr_set)} |-> 0]]

\* A Result: Ok with a number, or an errno.
Res(res, val) == [res |-> res, val |-> val]

\* SysNode::read_attr of the cast's nodes: the value the node keeps, NOT_FOUND
\* (ENOENT) for a name that is no attribute of the node and NOT_PERMITTED (EPERM)
\* for an attribute without CAN_READ.  The nodes keep their values in memory, so
\* no underlying source fails.
read_attr(sysnode, name) ==
    LET found == get(nodes[sysnode].attr_set, name) IN
    IF found = {} THEN Res("ENOENT", 0)
    ELSE IF CAN_READ \notin (CHOOSE attr \in found : TRUE).flags THEN Res("EPERM", 0)
    ELSE Res("Ok", vals[sysnode][name])

\* SysNode::write_attr of the cast's nodes: the result and the values kept after.
write_attr(sysnode, name, buf) ==
    LET found == get(nodes[sysnode].attr_set, name) IN
    IF found = {} THEN [res |-> "ENOENT", vals |-> vals]
    ELSE IF CAN_WRITE \notin (CHOOSE attr \in found : TRUE).flags
        THEN [res |-> "EPERM", vals |-> vals]
    ELSE [res |-> "Ok", vals |-> [vals EXCEPT ![sysnode][name] = buf]]

\* The value a node keeps for a name, 0 when the name is no attribute of it.
kept(v, sysnode, name) == IF name \in DOMAIN v[sysnode] THEN v[sysnode][name] ELSE 0

\* What out notes of a call: the operation, the inode (or, for read_attr and
\* write_attr, the node) it was called on, the attribute name and the number
\* (offset, mode, time, uid, gid) it was passed, what was to be written (buf), the
\* result (res, with val or text), and the value the node kept for the attribute
\* before and after the call.
Call(op, on, name, arg, buf, res, val, text, before, after) ==
    [op |-> op, on |-> on, name |-> name, arg |-> arg, buf |-> buf, res |-> res,
     val |-> val, text |-> text, before |-> before, after |-> after]

NoOut == Call("none", 0, None, 0, 0, None, 0, None, 0, 0)

\* A call of a node's read_attr by a controller.
ReadAttr(sysnode, name) ==
    /\ out' = IF "ops" \notin watch THEN out ELSE
                Call("read_attr", sysnode, name, 0, 0, read_attr(sysnode, name).res,
                     read_attr(sysnode, name).val, None,
                     kept(vals, sysnode, name), kept(vals, sysnode, name))
    /\ UNCHANGED <<NEXT_ID, nodes, children, inodes, alive, made_by, ret, gone, rd,
                   watch, vals, now, hubvars, unitvars>>

\* A call of a node's write_attr by a controller.
WriteAttr(sysnode, name, buf) ==
    LET w == write_attr(sysnode, name, buf) IN
    /\ vals' = w.vals
    /\ out' = IF "ops" \notin watch THEN out ELSE
                Call("write_attr", sysnode, name, 0, buf, w.res, 0, None,
                     kept(vals, sysnode, name), kept(w.vals, sysnode, name))
    /\ UNCHANGED <<NEXT_ID, nodes, children, inodes, alive, made_by, ret, gone, rd,
                   watch, now, hubvars, unitvars>>

----------------------------------------------------------------------------
(* sysfs::inode::SysFsInode: the other operations of the Inode trait *)

\* read_direct_at that hands any inode's node and name to read_attr.
read_direct_at_any(self, offset) ==
    read_attr(inodes[self].inner_node.node,
              IF inodes[self].inner_node.kind = "Attr"
              THEN inodes[self].inner_node.attr ELSE nodes[inodes[self].inner_node.node].name)

\* The offset is not looked at.
read_direct_at(self, offset) ==
    IF inodes[self].inner_node.kind # "Attr" THEN Res("EINVAL", 0)
    ELSE read_attr(inodes[self].inner_node.node, inodes[self].inner_node.attr)

read_at(self, offset) == read_direct_at(self, offset)

\* write_direct_at that stores the value itself, whatever the attribute's flags.
write_direct_at_unchecked(self, offset, buf) ==
    IF inodes[self].inner_node.kind # "Attr" THEN [res |-> "EINVAL", vals |-> vals]
    ELSE [res |-> "Ok",
          vals |-> [vals EXCEPT ![inodes[self].inner_node.node][inodes[self].inner_node.attr] = buf]]

write_direct_at(self, offset, buf) ==
    IF inodes[self].inner_node.kind # "Attr" THEN [res |-> "EINVAL", vals |-> vals]
    ELSE write_attr(inodes[self].inner_node.node, inodes[self].inner_node.attr, buf)

write_at(self, offset, buf) == write_direct_at(self, offset, buf)

\* read_link: the result and the string.
read_link(self) ==
    IF inodes[self].inner_node.kind # "Symlink" THEN [res |-> "EINVAL", text |-> None]
    ELSE [res |-> "Ok", text |-> nodes[inodes[self].inner_node.node].target_path]

create(self) == "EOPNOTSUPP"

mknod(self) == "ENOTDIR"

link(self) == "EPERM"

unlink(self, name) == "EPERM"

rename(self) == "EPERM"

write_link(self) == "EPERM"

ioctl(self) == "EPERM"

fallocate(self) == "EOPNOTSUPP"

sync_all(self) == "Ok"

sync_data(self) == "Ok"

\* resize returns an error that the source leaves out: NOT_SUPPORTED.
resize(self) == "EOPNOTSUPP"

\* set_owner and set_group return an error that the source leaves out:
\* NOT_PERMITTED.
set_owner(self, uid) == "EPERM"

set_group(self, gid) == "EPERM"

metadata(self) == inodes[self].metadata

mode(self) == inodes[self].mode

size(self) == inodes[self].metadata.size

atime(self) == inodes[self].metadata.atime

mtime(self) == inodes[self].metadata.mtime

ctime(self) == inodes[self].metadata.ctime

owner(self) == inodes[self].metadata.uid

group(self) == inodes[self].metadata.gid

\* set_mode: the inodes after the call.
set_mode(self, new_mode) == [inodes EXCEPT ![self].mode = new_mode]

\* set_atime that stores the time.
set_atime_stores(self, time) == [inodes EXCEPT ![self].metadata.atime = time]

\* set_atime, set_mtime and set_ctime have empty bodies: the inodes after the call.
set_atime(self, time) == inodes

set_mtime(self, time) == inodes

set_ctime(self, time) == inodes

\* A call that only returns: nothing but out changes.
Returns(op, self, res) ==
    /\ self \in alive
    /\ out' = IF "ops" \notin watch THEN out
              ELSE Call(op, self, None, 0, 0, res, 0, None, 0, 0)
    /\ UNCHANGED <<NEXT_ID, nodes, children, inodes, alive, made_by, ret, gone, rd,
                   watch, vals, now, hubvars, unitvars>>

\* A call that returns after it has set a field of the inode to arg, or not.
Sets(op, self, arg, res, after) ==
    /\ self \in alive
    /\ inodes' = after
    /\ out' = IF "ops" \notin watch THEN out
              ELSE Call(op, self, None, arg, 0, res, 0, None, 0, 0)
    /\ UNCHANGED <<NEXT_ID, nodes, children, alive, made_by, ret, gone, rd, watch,
                   vals, now, hubvars, unitvars>>

\* The attribute name of an attribute inode, None for any other inode.
AttrName(self) == inodes[self].inner_node.attr

ReadAt(self, offset) ==
    LET sysnode == inodes[self].inner_node.node IN
    /\ self \in alive
    /\ out' = IF "ops" \notin watch THEN out ELSE
                Call("read_at", self, None, offset, 0, read_at(self, offset).res,
                     read_at(self, offset).val, None,
                     kept(vals, sysnode, AttrName(self)),
                     kept(vals, sysnode, AttrName(self)))
    /\ UNCHANGED <<NEXT_ID, nodes, children, inodes, alive, made_by, ret, gone, rd,
                   watch, vals, now, hubvars, unitvars>>

WriteAt(self, offset, buf) ==
    LET sysnode == inodes[self].inner_node.node
        w == write_at(self, offset, buf)
    IN  /\ self \in alive
        /\ vals' = w.vals
        /\ out' = IF "ops" \notin watch THEN out ELSE
                    Call("write_at", self, None, offset, buf, w.res, 0, None,
                         kept(vals, sysnode, AttrName(self)),
                         kept(w.vals, sysnode, AttrName(self)))
        /\ UNCHANGED <<NEXT_ID, nodes, children, inodes, alive, made_by, ret, gone,
                       rd, watch, now, hubvars, unitvars>>

ReadLink(self) ==
    /\ self \in alive
    /\ out' = IF "ops" \notin watch THEN out ELSE
                Call("read_link", self, None, 0, 0, read_link(self).res, 0,
                     read_link(self).text, 0, 0)
    /\ UNCHANGED <<NEXT_ID, nodes, children, inodes, alive, made_by, ret, gone, rd,
                   watch, vals, now, hubvars, unitvars>>

Create(self) == Returns("create", self, create(self))

Mknod(self) == Returns("mknod", self, mknod(self))

Link(self) == Returns("link", self, link(self))

\* unlink that removes the child from the branch of the directory.
UnlinkRemoves(self, name) ==
    /\ self \in alive
    /\ inodes[self].inner_node.kind = "Branch"
    /\ children' = [children EXCEPT ![inodes[self].inner_node.node] =
                        remove_child(inodes[self].inner_node.node, name).map]
    /\ out' = IF "ops" \notin watch THEN out
              ELSE Call("unlink", self, None, 0, 0, "Ok", 0, None, 0, 0)
    /\ UNCHANGED <<NEXT_ID, nodes, inodes, alive, made_by, ret, gone, rd, watch,
                   vals, now, hubvars, unitvars>>

Unlink(self, name) == Returns("unlink", self, unlink(self, name))

Rename(self) == Returns("rename", self, rename(self))

WriteLink(self) == Returns("write_link", self, write_link(self))

Ioctl(self) == Returns("ioctl", self, ioctl(self))

Fallocate(self) == Returns("fallocate", self, fallocate(self))

Resize(self) == Returns("resize", self, resize(self))

SyncAll(self) == Returns("sync_all", self, sync_all(self))

SyncData(self) == Returns("sync_data", self, sync_data(self))

SetOwner(self, uid) == Sets("set_owner", self, uid, set_owner(self, uid), inodes)

SetGroup(self, gid) == Sets("set_group", self, gid, set_group(self, gid), inodes)

SetMode(self, new_mode) ==
    Sets("set_mode", self, new_mode, "Ok", set_mode(self, new_mode))

SetAtime(self, time) == Sets("set_atime", self, time, "Ok", set_atime(self, time))

SetMtime(self, time) == Sets("set_mtime", self, time, "Ok", set_mtime(self, time))

SetCtime(self, time) == Sets("set_ctime", self, time, "Ok", set_ctime(self, time))

\* The latest time the clock reaches.
MaxTime == 2

\* The coarse clock moves on.
Tick ==
    /\ now < MaxTime
    /\ now' = now + 1
    /\ UNCHANGED <<NEXT_ID, nodes, children, inodes, alive, made_by, ret, gone, rd,
                   watch, vals, out, hubvars, unitvars>>

\* The modes a caller passes to set_mode.
Modes == {0, Octal(6, 4, 4)}

----------------------------------------------------------------------------
(* systree::event: the event hub *)

\* The observers that the users of the tree have created.
Observers == {"o1", "o2"}

\* The order in which the Subject goes through its observers.
ObserverSeq == << "o1", "o2" >>

\* How many publish_event calls are made.
MaxPublish == 2

SysEventActions == {"Add", "Remove", "Change"}

\* SysEventSelector
All == [tag |-> "All", action |-> None]
Action(action) == [tag |-> "Action", action |-> action]

\* The selectors the observers register with.
Selectors == {All, Action("Add")}

SysEventKv(key, value) == [key |-> key, value |-> value]

\* The details a publisher passes: none, or one pair.
Details == {<< >>, << SysEventKv("KEY", "V") >>}

\* SysEvent::new
SysEvent(action, path_, details) ==
    [action |-> action, path |-> path_, details |-> details]

\* A filter that selects every event.
filter_any(selector, event) == TRUE

\* SysEventSelector::filter
filter(selector, event) ==
    CASE selector.tag = "All" -> TRUE
      [] selector.tag = "Action" -> selector.action = event.action

\* SysObj::parent: the branch that holds the node as a child (an Option is the
\* set of what it holds); the controllers of this model add a node to one branch.
parent_of(obj) ==
    {b \in Branches : \E k \in DOMAIN children[b] : children[b][k] = obj}

\* The walk of path up the parents: the names from the root down to the node,
\* for every way up that meets no node twice (seen: the nodes met so far).
RECURSIVE path_up(_, _)
path_up(obj, seen) ==
    IF obj = 0 THEN {<< >>}
    ELSE {Append(p, nodes[obj].name) :
            p \in UNION {path_up(b, seen \cup {obj}) :
                            b \in parent_of(obj) \ (seen \cup {obj})}}

\* SysObj::path: the names from the root down to the node (the root's own path is
\* empty), None for a node that is not attached to the tree.  A node that the
\* controllers have added to one branch has one path.
path(obj) == path_up(obj, {})

\* Subject::register_observer: registering an observer again changes nothing.
register_observer(observer, selector) ==
    IF observer \in DOMAIN subject THEN subject ELSE insert(subject, observer, selector)

\* Subject::unregister_observer
unregister_observer(observer) == remove(subject, observer)

\* Subject::notify_observers: the event, the observers that are notified of it,
\* in the Subject's order (those that are alive and whose selector admits the
\* event), and the registrations left once those of the dead observers are
\* pruned.
notify_observers(event) ==
    [event |-> event,
     active_observers |->
        SelectSeq(ObserverSeq,
                  LAMBDA o : /\ o \in DOMAIN subject
                             /\ o \in live
                             /\ filter(subject[o], event)),
     subject |-> [o \in DOMAIN subject \cap live |-> subject[o]]]

\* publish_event for a node without a path: the event is made of its name.
publish_event_detached(obj, action, details) ==
    notify_observers(SysEvent(action,
                              IF path(obj) = {} THEN << nodes[obj].name >>
                              ELSE CHOOSE p \in path(obj) : TRUE,
                              details))

\* The outcome of a publish_event call that returns before it makes an event.
NotNotified ==
    [event |-> SysEvent(None, << >>, << >>), active_observers |-> << >>,
     subject |-> subject]

\* publish_event that notifies the observers twice.
publish_event_twice(obj, action, details) ==
    IF path(obj) = {} THEN NotNotified
    ELSE LET e == SysEvent(action, CHOOSE p \in path(obj) : TRUE, details)
         IN  [event |-> e,
              active_observers |-> notify_observers(e).active_observers
                                        \o notify_observers(e).active_observers,
              subject |-> notify_observers(e).subject]

\* SysEventHub::publish_event: the event made, who is notified of it, and the
\* registrations after.
publish_event(obj, action, details) ==
    IF path(obj) = {} THEN NotNotified
    ELSE notify_observers(SysEvent(action, CHOOSE p \in path(obj) : TRUE, details))

\* What log notes of the last publish_event call: its number among the calls,
\* its arguments, and whether the node had a path.
Published(n, obj, action, details, had_path) ==
    [n |-> n, obj |-> obj, action |-> action, details |-> details,
     had_path |-> had_path]

NoLog == Published(0, 0, None, << >>, FALSE)

\* Observer::on_events of an observer that keeps what it receives, with the
\* number of the publish_event call that sent it.
on_events(box, n, event) == Append(box, [n |-> n, event |-> event])

\* How often an observer occurs among those notified.
Times(seq, o) == Cardinality({i \in 1..Len(seq) : seq[i] = o})

RECURSIVE deliver(_, _, _, _)
deliver(box, times, n, event) ==
    IF times = 0 THEN box ELSE deliver(on_events(box, n, event), times - 1, n, event)

RegisterObserver(observer, selector) ==
    /\ observer \in live
    /\ subject' = register_observer(observer, selector)
    /\ UNCHANGED <<NEXT_ID, nodes, children, inodes, alive, made_by, ret, gone, rd,
                   watch, vals, now, out, live, inbox, log, unitvars>>

UnregisterObserver(observer) ==
    /\ subject' = unregister_observer(observer)
    /\ UNCHANGED <<NEXT_ID, nodes, children, inodes, alive, made_by, ret, gone, rd,
                   watch, vals, now, out, live, inbox, log, unitvars>>

\* The last strong reference to an observer is dropped.
DropObserver(observer) ==
    /\ observer \in live
    /\ live' = live \ {observer}
    /\ UNCHANGED <<NEXT_ID, nodes, children, inodes, alive, made_by, ret, gone, rd,
                   watch, vals, now, out, subject, inbox, log, unitvars>>

\* A call of publish_event by a controller.
PublishEvent(obj, action, details) ==
    LET r == publish_event(obj, action, details)
        n == log.n + 1
    IN  /\ log.n < MaxPublish
        /\ subject' = r.subject
        /\ inbox' = [o \in Observers |->
                        deliver(inbox[o], Times(r.active_observers, o), n, r.event)]
        /\ log' = Published(n, obj, action, details, path(obj) # {})
        /\ UNCHANGED <<NEXT_ID, nodes, children, inodes, alive, made_by, ret, gone, rd,
                       watch, vals, now, out, live, unitvars>>

----------------------------------------------------------------------------
(* systree::attr: SysAttrSet as a struct, and SysAttrSetBuidler *)

\* total_attrs and SysAttr::id are u8.
U8_BITS == 8

U8_MAX == 2^U8_BITS - 1

\* SysAttrSet::CAPACITY
CAPACITY == 256

\* How many attributes more than CAPACITY a caller tries to add to one builder.
MaxExtra == 2

\* How many attributes a caller adds to a builder that inherits a parent set.
MaxOwn == 3

\* The struct SysAttrSet: its own attributes and, as an Option, the set it
\* inherits.
SysAttrSet(this_set, parent_set) == [this_set |-> this_set, parent_set |-> parent_set]

RECURSIVE len(_)
\* SysAttrSet::len
len(self) ==
    LET this_set_len == Len(self.this_set)
        parent_set_len == IF self.parent_set = {} THEN 0
                          ELSE len(CHOOSE set \in self.parent_set : TRUE)
    IN  this_set_len + parent_set_len

RECURSIVE all_attrs(_)
\* What SysAttrSet::iter yields of the struct: the inherited attributes, then its
\* own, each in the order it was added.
all_attrs(self) ==
    (IF self.parent_set = {} THEN << >>
     ELSE all_attrs(CHOOSE set \in self.parent_set : TRUE)) \o self.this_set

\* SysAttrSet::contains
SysAttrSet_contains(self, attr_name) ==
    \E i \in 1..Len(all_attrs(self)) : all_attrs(self)[i].name = attr_name

\* SysAttrSetBuidler::new
SysAttrSetBuidler_new == [total_attrs |-> 0, this_set |-> << >>, parent_set |-> {}]

\* SysAttrSetBuidler::with_parent: parent.len() is cast to u8, which keeps its
\* low bits.
with_parent(parent) ==
    [total_attrs |-> len(parent) % 2^U8_BITS, this_set |-> << >>,
     parent_set |-> {parent}]

\* SysAttrSetBuidler::add: the builder after the call, or a panic.  The
\* debug_assert! is compiled into a build with debug assertions only; such a
\* build also checks the u8 addition, which wraps around in the other builds.
add(self, name, flags, debug_assertions) ==
    LET Ok == [res |-> "Ok", builder |-> self]
        panic == [res |-> "panic", builder |-> self]
        new_attr == SysAttr(self.total_attrs, name, flags)
    IN  IF debug_assertions /\ ~(self.total_attrs < U8_MAX) THEN panic
        ELSE IF /\ self.parent_set # {}
                /\ SysAttrSet_contains(CHOOSE set \in self.parent_set : TRUE, name)
        THEN Ok
        ELSE IF \E i \in 1..Len(self.this_set) : self.this_set[i].name = name
        THEN Ok
        ELSE IF debug_assertions /\ self.total_attrs + 1 > U8_MAX THEN panic
        ELSE [Ok EXCEPT !.builder =
                [self EXCEPT !.this_set = Append(@, new_attr),
                             !.total_attrs = (@ + 1) % 2^U8_BITS]]

\* SysAttrSetBuidler::build
build(self) == SysAttrSet(self.this_set, self.parent_set)

\* No builder is in use.
NoBuilder ==
    [pc |-> "idle", debug_assertions |-> FALSE, builder |-> SysAttrSetBuidler_new,
     set |-> {}, last |-> [name |-> -1, flags |-> {}, res |-> None]]

\* A caller has called SysAttrSetBuidler::new, in a build with or without debug
\* assertions.
Opened(debug_assertions) ==
    [NoBuilder EXCEPT !.pc = "open", !.debug_assertions = debug_assertions]

\* The names of attributes are numbers here.  A caller adds the least name it
\* has not added yet, or again the first or the last name that the set holds.
AddNames ==
    LET n == len(build(bld.builder)) IN {n} \cup ({0, n - 1} \ {-1})

\* The flags a caller gives a name when it adds it for the first time.
FlagsFor(name) == IF name % 2 = 0 THEN {CAN_READ} ELSE {CAN_READ, CAN_WRITE}

\* A call of add on the builder.
Add(name, flags) ==
    LET r == add(bld.builder, name, flags, bld.debug_assertions) IN
    /\ bld.pc = "open"
    /\ bld' = [bld EXCEPT !.pc = IF r.res = "panic" THEN "panicked" ELSE "open",
                          !.builder = r.builder,
                          !.last = [name |-> name, flags |-> flags, res |-> r.res]]
    /\ UNCHANGED <<NEXT_ID, nodes, children, inodes, alive, made_by, ret, gone, rd,
                   watch, vals, now, out, hubvars, ids, calc, scan, walk, era, race>>

\* A call of build on the builder.
Build ==
    /\ bld.pc = "open"
    /\ bld' = [bld EXCEPT !.pc = "built", !.set = {build(bld.builder)}]
    /\ UNCHANGED <<NEXT_ID, nodes, children, inodes, alive, made_by, ret, gone, rd,
                   watch, vals, now, out, hubvars, ids, calc, scan, walk, era, race>>

\* A call of with_parent with the set that was built, which inherits no set
\* itself.
WithParent ==
    /\ bld.pc = "built"
    /\ \E parent \in bld.set :
        /\ parent.parent_set = {}
        /\ bld' = [bld EXCEPT !.pc = "open", !.builder = with_parent(parent),
                              !.set = {},
                              !.last = NoBuilder.last]
    /\ UNCHANGED <<NEXT_ID, nodes, children, inodes, alive, made_by, ret, gone, rd,
                   watch, vals, now, out, hubvars, ids, calc, scan, walk, era, race>>

----------------------------------------------------------------------------
(* systree::node::SysNodeId::new, called by several threads *)

Threads == {"t1", "t2"}

\* How many calls of SysNodeId::new a thread makes.
MaxCalls == 2

\* AtomicU64::fetch_add: the value the counter held, and the value it holds
\* after the call; the addition wraps around.
fetch_add_lost(counter, val) == [old |-> counter, new |-> counter]
fetch_add(counter, val) == [old |-> counter, new |-> (counter + val) % 2^InoBits]

\* No thread is in SysNodeId::new and none has called it.
NoCalls == [t \in Threads |-> [pc |-> "idle", next_id |-> 0, got |-> << >>]]

\* SysNodeId::new, up to its fetch_add: one atomic step.
FetchAdd(t) ==
    LET r == fetch_add(NEXT_ID, 1) IN
    /\ ids[t].pc = "idle"
    /\ Len(ids[t].got) < MaxCalls
    /\ NEXT_ID' = r.new
    /\ ids' = [ids EXCEPT ![t].pc = "fetched", ![t].next_id = r.old]
    /\ UNCHANGED <<nodes, children, inodes, alive, made_by, ret, gone, rd,
                   watch, vals, now, out, hubvars, bld, calc, scan, walk, era, race>>

\* SysNodeId::new, from its assert! on: the call returns Self(next_id), or the
\* assertion fails and the thread panics.
AssertAndReturn(t) ==
    /\ ids[t].pc = "fetched"
    /\ ids' = IF ids[t].next_id <= U64_MAX \div 2
              THEN [ids EXCEPT ![t].pc = "idle", ![t].got = Append(@, ids[t].next_id)]
              ELSE [ids EXCEPT ![t].pc = "panicked"]
    /\ UNCHANGED <<NEXT_ID, nodes, children, inodes, alive, made_by, ret, gone, rd,
                   watch, vals, now, out, hubvars, bld, calc, scan, walk, era, race>>

----------------------------------------------------------------------------
(* sysfs::inode::ino applied to node ids and attribute ids *)

\* No ino is being computed.
NoCalc ==
    [pc |-> "idle", a |-> 0, b |-> 0, attr_id |-> 0, ino_a |-> 0, ino_b |-> 0,
     attr_ino |-> 0]

\* Ids that SysNodeId::new returns (none exceeds U64_MAX / 2): the least ones,
\* those around the least id whose ino has bits beyond the width of Ino, and
\* the largest one.
IdSamples ==
    LET top == 2^(InoBits - ATTR_INO_SHIFT)
    IN  {0, 1, 2, top - 1, top, top + 1, U64_MAX \div 2}

\* Two nodes with the ids a and b, and an attribute of the first with attr_id.
Drawn(a, b, attr_id) == [NoCalc EXCEPT !.pc = "drawn", !.a = a, !.b = b, !.attr_id = attr_id]

\* The inos of the two nodes and of the attribute are computed.
InoOf ==
    /\ calc.pc = "drawn"
    /\ calc' = [calc EXCEPT !.pc = "done",
                            !.ino_a = from_sysnode_id(calc.a),
                            !.ino_b = from_sysnode_id(calc.b),
                            !.attr_ino = from_dir_ino_and_attr_id(
                                            from_sysnode_id(calc.a), calc.attr_id)]
    /\ UNCHANGED <<NEXT_ID, nodes, children, inodes, alive, made_by, ret, gone, rd,
                   watch, vals, now, out, hubvars, bld, ids, scan, walk, era, race>>

----------------------------------------------------------------------------
(* SysFsInode::readdir_at step by step, next to add_child and remove_child *)

\* No readdir_at call runs step by step.
NoScan == [pc |-> "idle", on |-> 0, off |-> 0, child_nodes |-> << >>, outcome |-> NoRead]

\* readdir_at is called on a directory inode.
ScanBegin(self, offset) ==
    /\ scan.pc \in {"idle", "returned"}
    /\ self \in alive /\ type_(self) = "Dir"
    /\ scan' = [NoScan EXCEPT !.pc = "called", !.on = self, !.off = offset]
    /\ era' = {children}
    /\ UNCHANGED <<NEXT_ID, nodes, children, inodes, alive, made_by, ret, gone, rd,
                   watch, vals, now, out, hubvars, bld, ids, calc, walk, race>>

\* new_dentry_iter makes its one call of visit_children_with, which holds the
\* child map's lock while it visits the children.
ScanCollect ==
    /\ scan.pc = "called"
    /\ scan' = [scan EXCEPT !.pc = "collected",
                            !.child_nodes = collect_child_nodes(scan.on, scan.off)]
    /\ UNCHANGED <<NEXT_ID, nodes, children, inodes, alive, made_by, ret, gone, rd,
                   watch, vals, now, out, hubvars, bld, ids, calc, walk, era, race>>

\* readdir_at runs the iterators over what was collected, and returns.
ScanReturn(visitor) ==
    /\ scan.pc = "collected"
    /\ \E outcome \in visit_all(scan.on, scan.off, visitor,
                                chain(scan.on, scan.off, scan.child_nodes),
                                children[inodes[scan.on].inner_node.node]) :
            scan' = [scan EXCEPT !.pc = "returned", !.outcome = outcome]
    /\ UNCHANGED <<NEXT_ID, nodes, children, inodes, alive, made_by, ret, gone, rd,
                   watch, vals, now, out, hubvars, bld, ids, calc, walk, era, race>>

----------------------------------------------------------------------------
(* A caller that enumerates a directory by readdir_at calls *)

\* No enumeration is under way.  Of an enumeration walk keeps the inode and the
\* offset of the next call, the entries reported once (once) and more than once
\* (again), by name and type, the last call's result, and whether the last call
\* was made after a call had returned 0 (later).
NoWalk ==
    [pc |-> "idle", on |-> 0, off |-> 0, once |-> {}, again |-> {},
     last |-> [res |-> None, val |-> 0, count |-> 0], later |-> FALSE]

\* The visitors that accept at least one entry of every call.
Accepting == {v \in Visitors : v.all \/ v.n >= 1}

\* A caller starts to enumerate a directory at offset 0.
WalkBegin(self) ==
    /\ walk.pc = "idle"
    /\ self \in alive /\ type_(self) = "Dir"
    /\ walk' = [NoWalk EXCEPT !.pc = "going", !.on = self]
    /\ era' = IF "era" \in watch THEN {children} ELSE era
    /\ UNCHANGED <<NEXT_ID, nodes, children, inodes, alive, made_by, ret, gone, rd,
                   watch, vals, now, out, hubvars, bld, ids, calc, scan, race>>

\* The walk after a readdir_at call with the given outcome.  While the
\* enumeration goes on, the caller adds the value returned to its offset (in a
\* build where the subtraction wrapped around, so does this addition) and stops
\* at a call that returns 0; a panic ends it.  A call made after that repeats
\* the offset.
walked(outcome) ==
    LET told == {<< outcome.emitted[i].name, outcome.emitted[i].type_ >> :
                    i \in 1..outcome.count}
        last == [res |-> outcome.res, val |-> outcome.val, count |-> outcome.count]
    IN  IF walk.pc = "done" THEN [walk EXCEPT !.last = last, !.later = TRUE]
        ELSE IF outcome.res # "Ok" THEN [walk EXCEPT !.pc = "failed", !.last = last]
        ELSE [walk EXCEPT !.pc = IF outcome.val = 0 THEN "done" ELSE "going",
                          !.off = (walk.off + outcome.val) % 2^InoBits,
                          !.once = (walk.once \cup told) \ (walk.once \cap told),
                          !.again = walk.again \cup (walk.once \cap told),
                          !.last = last]

\* The caller's next readdir_at call.
WalkCall(visitor) ==
    /\ walk.pc \in {"going", "done"}
    /\ \E outcome \in readdir_at(walk.on, walk.off, visitor) : walk' = walked(outcome)
    /\ UNCHANGED <<NEXT_ID, nodes, children, inodes, alive, made_by, ret, gone, rd,
                   watch, vals, now, out, hubvars, bld, ids, calc, scan, era, race>>

(* add_child called by two threads on one branch, next to a reader of the
   branch's child map, step by step *)

\* The RwMutex of a branch's child map: the threads that hold it for writing
\* and for reading.
Unlocked == [writer |-> {}, readers |-> {}]

\* A write() that returns whoever holds the lock.
write_unlocked(lock) == TRUE

\* RwMutex::write returns once no thread holds the lock, for writing or reading.
write(lock) == lock.writer = {} /\ lock.readers = {}

\* RwMutex::read returns once no thread holds the lock for writing.
read(lock) == lock.writer = {}

\* No call is under way: the branch (on), the lock of its child map, each
\* thread's add_child call (where it is, its argument, its result, and whether
\* the other thread's call was under way when it was made), and the reader's
\* contains or child call with what its calls returned so far.
NoRace ==
    [on |-> 0, lock |-> Unlocked,
     adds |-> [t \in Threads |->
                [pc |-> "idle", new_child |-> 0, res |-> None, met |-> FALSE]],
     reader |-> [pc |-> "idle", op |-> "none", name |-> "", found |-> {}, held |-> {}]]

\* A thread calls add_child(new_child) on the branch; each thread calls once,
\* with a node of its own.
AddChildCall(t, new_child) ==
    /\ race.adds[t].pc = "idle"
    /\ \A u \in Threads \ {t} : race.adds[u].new_child # new_child
    /\ race' = [race EXCEPT !.adds[t] =
                    [pc |-> "called", new_child |-> new_child, res |-> None,
                     met |-> \E u \in Threads \ {t} :
                                race.adds[u].pc \in {"called", "locked", "checked"}]]
    /\ UNCHANGED <<NEXT_ID, nodes, children, inodes, alive, made_by, ret, gone, rd,
                   watch, vals, now, out, hubvars, bld, ids, calc, scan, walk, era>>

\* let mut children = self.children.write();
AddChildWrite(t) ==
    /\ race.adds[t].pc = "called"
    /\ write(race.lock)
    /\ race' = [race EXCEPT !.adds[t].pc = "locked", !.lock.writer = {t}]
    /\ UNCHANGED <<NEXT_ID, nodes, children, inodes, alive, made_by, ret, gone, rd,
                   watch, vals, now, out, hubvars, bld, ids, calc, scan, walk, era>>

\* if children.contains_key(name) { return Err(...); }: the return drops the
\* guard, which unlocks the child map.
AddChildCheck(t) ==
    /\ race.adds[t].pc = "locked"
    /\ race' = IF add_child(race.on, race.adds[t].new_child).res # "Ok"
               THEN [race EXCEPT
                        !.adds[t].pc = "returned",
                        !.adds[t].res = add_child(race.on, race.adds[t].new_child).res,
                        !.lock.writer = race.lock.writer \ {t}]
               ELSE [race EXCEPT !.adds[t].pc = "checked"]
    /\ UNCHANGED <<NEXT_ID, nodes, children, inodes, alive, made_by, ret, gone, rd,
                   watch, vals, now, out, hubvars, bld, ids, calc, scan, walk, era>>

\* children.insert(name.clone(), new_child); Ok(()): the return drops the guard.
AddChildInsert(t) ==
    /\ race.adds[t].pc = "checked"
    /\ children' = [children EXCEPT ![race.on] =
                        insert(@, nodes[race.adds[t].new_child].name,
                               race.adds[t].new_child)]
    /\ race' = [race EXCEPT !.adds[t].pc = "returned", !.adds[t].res = "Ok",
                            !.lock.writer = race.lock.writer \ {t}]
    /\ UNCHANGED <<NEXT_ID, nodes, inodes, alive, made_by, ret, gone, rd,
                   watch, vals, now, out, hubvars, bld, ids, calc, scan, walk, era>>

\* The reader calls contains(name) on the branch, or child(name) as lookup does.
ReaderCall(op, name) ==
    /\ race.reader.pc = "idle"
    /\ race' = [race EXCEPT !.reader.pc = "called", !.reader.op = op,
                            !.reader.name = name]
    /\ UNCHANGED <<NEXT_ID, nodes, children, inodes, alive, made_by, ret, gone, rd,
                   watch, vals, now, out, hubvars, bld, ids, calc, scan, walk, era>>

\* let children = self.children.read();
ReaderRead ==
    /\ race.reader.pc = "called"
    /\ read(race.lock)
    /\ race' = [race EXCEPT !.reader.pc = "locked",
                            !.lock.readers = race.lock.readers \cup {"reader"}]
    /\ UNCHANGED <<NEXT_ID, nodes, children, inodes, alive, made_by, ret, gone, rd,
                   watch, vals, now, out, hubvars, bld, ids, calc, scan, walk, era>>

\* SysBranchNodeFields::contains, children.contains_key(child_name), and the
\* return, which drops the guard.
ContainsReturn ==
    /\ race.reader.pc = "locked" /\ race.reader.op = "contains"
    /\ race' = [race EXCEPT
                    !.reader.pc = "idle",
                    !.reader.found = @ \cup {contains(race.on, race.reader.name)},
                    !.lock.readers = race.lock.readers \ {"reader"}]
    /\ UNCHANGED <<NEXT_ID, nodes, children, inodes, alive, made_by, ret, gone, rd,
                   watch, vals, now, out, hubvars, bld, ids, calc, scan, walk, era>>

\* SysBranchNode::child as lookup_node_or_attr calls it: the node that the child
\* map holds under the name, if any, read with the lock held for reading.
ChildReturn ==
    /\ race.reader.pc = "locked" /\ race.reader.op = "child"
    /\ race' = [race EXCEPT
                    !.reader.pc = "idle",
                    !.reader.held = @ \cup
                        {IF contains(race.on, race.reader.name)
                         THEN {children[race.on][race.reader.name]} ELSE {}},
                    !.lock.readers = race.lock.readers \ {"reader"}]
    /\ UNCHANGED <<NEXT_ID, nodes, children, inodes, alive, made_by, ret, gone, rd,
                   watch, vals, now, out, hubvars, bld, ids, calc, scan, walk, era>>

\* The parts that are driven on their own are not in use.
UnitsIdle ==
    /\ bld = NoBuilder
    /\ ids = NoCalls
    /\ calc = NoCalc
    /\ scan = NoScan
    /\ walk = NoWalk
    /\ era = {}
    /\ race = NoRace

----------------------------------------------------------------------------

\* The tree, the view and the event hub once SysTree::new, the controllers' node
\* constructors and SysFs::new have run; w is what the observer notes.
Booted(w) ==
    /\ now = 0
    /\ nodes = Cast
    /\ children = [id \in DOMAIN Cast |-> EmptyMap]
    /\ inodes = << new_root >>
    /\ alive = {RootInode}
    /\ made_by = << NoParent >>
    /\ ret = NoRet
    /\ gone = NoGone
    /\ rd = NoRead
    /\ watch = w
    /\ vals = NoVals
    /\ out = NoOut
    /\ subject = EmptyMap
    /\ live = Observers
    /\ inbox = [o \in Observers |-> << >>]
    /\ log = NoLog

\* The state in which the tree and the view are driven.
Start(w) == Booted(w) /\ NEXT_ID = 4 /\ UnitsIdle

(* The model: add_child and remove_child on the branches, any node as the child *)

TreeInit == Start({"tree"})

TreeNext ==
    \/ \E b \in Branches, c \in NodeIds \ {0} : AddChild(b, c)
    \/ \E b \in Branches, name \in ChildNames : RemoveChild(b, name)

SpecTree == TreeInit /\ [][TreeNext]_vars

(* The view's lookup over a tree that changes, with inodes being dropped *)

LookupInit == Start({"lookup"})

LookupNext ==
    \/ \E b \in Branches, c \in NodeIds \ {0} : AddChild(b, c)
    \/ \E b \in Branches, name \in ChildNames : RemoveChild(b, name)
    \/ \E self \in DOMAIN inodes, name \in Names : Lookup(self, name)
    \/ \E self \in DOMAIN inodes : DropInode(self)

SpecLookup == LookupInit /\ [][LookupNext]_vars

(* The view's lookup after the model's remove_child *)

RemoveInit == Start({"lookup", "gone"})

\* The names looked up are those remove_child is called with; the children are
\* the branch z and the leaf x.
RemoveNext ==
    \/ \E b \in Branches, c \in {n \in NodeIds \ {0} : nodes[n].type # "Symlink"} :
            AddChild(b, c)
    \/ \E b \in Branches, name \in ChildNames : RemoveChild(b, name)
    \/ \E self \in DOMAIN inodes, name \in ChildNames : Lookup(self, name)

SpecRemove == RemoveInit /\ [][RemoveNext]_vars

(* The view's readdir_at over a tree that changes *)

\* The state once the controllers have called add_child(z) on the root and
\* add_child(x) on z, and a user has looked up z in the root directory and x in
\* z's directory: three directory inodes, of the root, of the branch z and of
\* the leaf x.
ReaddirInit ==
    /\ now = 0
    /\ NEXT_ID = 4
    /\ nodes = Cast
    /\ children = [id \in DOMAIN Cast |->
                        CASE id = 0 -> insert(EmptyMap, "z", 1)
                          [] id = 1 -> insert(EmptyMap, "x", 2)
                          [] OTHER -> EmptyMap]
    /\ inodes = << new_root, new_branch_dir(1, 1), new_leaf_dir(2, 2) >>
    /\ alive = {1, 2, 3}
    /\ made_by = << NoParent, 1, 2 >>
    /\ ret = NoRet
    /\ gone = NoGone
    /\ rd = NoRead
    /\ watch = {"readdir"}
    /\ vals = NoVals
    /\ out = NoOut
    /\ subject = EmptyMap
    /\ live = Observers
    /\ inbox = [o \in Observers |-> << >>]
    /\ log = NoLog
    /\ UnitsIdle

ReaddirNext ==
    \/ \E c \in NodeIds \ {0} : AddChild(0, c)
    \/ \E name \in {"z", "x"} : RemoveChild(0, name)
    \/ \E self \in DOMAIN inodes : DropInode(self)
    \/ \E self \in DOMAIN inodes, offset \in Offsets, visitor \in Visitors :
            ReaddirAt(self, offset, visitor)

SpecReaddir == ReaddirInit /\ [][ReaddirNext]_vars

(* The other inode operations, and the nodes' attribute I/O, over a root that
   gets its children *)

OpsInit == Start({"ops"})

\* The nodes that have attributes to read and write: the branches and the leaves.
NormalNodes == {n \in NodeIds : nodes[n].type # "Symlink"}

OpsNext ==
    \/ \E c \in NodeIds \ {0} : AddChild(0, c)
    \/ \E self \in DOMAIN inodes, name \in {"z", "x"} : Lookup(self, name)
    \/ \E sysnode \in NormalNodes, name \in {"x", "y"} : ReadAttr(sysnode, name)
    \/ \E sysnode \in NormalNodes, name \in {"x", "y"}, buf \in Values :
            WriteAttr(sysnode, name, buf)
    \/ \E self \in DOMAIN inodes, offset \in {0, 1} : ReadAt(self, offset)
    \/ \E self \in DOMAIN inodes, offset \in {0, 1}, buf \in Values :
            WriteAt(self, offset, buf)
    \/ \E self \in DOMAIN inodes : ReadLink(self)
    \/ \E self \in DOMAIN inodes : Create(self)
    \/ \E self \in DOMAIN inodes : Mknod(self)
    \/ \E self \in DOMAIN inodes : Link(self)
    \/ \E self \in DOMAIN inodes, name \in {"x"} : Unlink(self, name)
    \/ \E self \in DOMAIN inodes : Rename(self)
    \/ \E self \in DOMAIN inodes : WriteLink(self)
    \/ \E self \in DOMAIN inodes : Ioctl(self)
    \/ \E self \in DOMAIN inodes : Fallocate(self)
    \/ \E self \in DOMAIN inodes : Resize(self)

SpecOps == OpsInit /\ [][OpsNext]_vars

(* Every operation of the view, next to the controllers' changes of the tree *)

\* Nothing is noted: the steps themselves are looked at.
ViewInit == Start({})

\* A call of an inode operation other than write_at.
ViewCall ==
    \E self \in DOMAIN inodes :
        \/ \E name \in {"z", "x", ".."} : Lookup(self, name)
        \/ \E visitor \in Visitors : ReaddirAt(self, 0, visitor)
        \/ ReadAt(self, 0)
        \/ ReadLink(self)
        \/ \E new_mode \in Modes : SetMode(self, new_mode)
        \/ SetOwner(self, 1)
        \/ SetGroup(self, 1)
        \/ Create(self)
        \/ Mknod(self)
        \/ Link(self)
        \/ Unlink(self, "x")
        \/ Rename(self)
        \/ WriteLink(self)
        \/ Ioctl(self)
        \/ Fallocate(self)
        \/ Resize(self)
        \/ SyncAll(self)
        \/ SyncData(self)

ViewNext ==
    \/ \E c \in NodeIds \ {0} : AddChild(0, c)
    \/ RemoveChild(0, "x")
    \/ ViewCall
    \/ \E self \in DOMAIN inodes, buf \in Values : WriteAt(self, 0, buf)

SpecView == ViewInit /\ [][ViewNext]_vars

(* The metadata of the inodes while the clock moves on *)

MetaInit == Start({"ops"})

\* The controllers add the branch z to the root.
MetaNext ==
    \/ AddChild(0, 1)
    \/ \E self \in DOMAIN inodes : Lookup(self, "z")
    \/ Tick
    \/ \E self \in DOMAIN inodes, new_mode \in Modes : SetMode(self, new_mode)
    \/ \E self \in DOMAIN inodes : SetOwner(self, 1)
    \/ \E self \in DOMAIN inodes : SetGroup(self, 1)
    \/ \E self \in DOMAIN inodes : SetAtime(self, MaxTime)
    \/ \E self \in DOMAIN inodes : SetMtime(self, MaxTime)
    \/ \E self \in DOMAIN inodes : SetCtime(self, MaxTime)

SpecMeta == MetaInit /\ [][MetaNext]_vars

(* The event hub: observers come and go while the controllers attach and detach
   the branch z and, under it, the leaf x, and publish events on the leaf *)

EventsInit == Start({})

EventsNext ==
    \/ AddChild(0, 1)
    \/ AddChild(1, 2)
    \/ RemoveChild(0, "z")
    \/ RemoveChild(1, "x")
    \/ \E observer \in Observers, selector \in Selectors :
            RegisterObserver(observer, selector)
    \/ \E observer \in Observers : UnregisterObserver(observer)
    \/ \E observer \in Observers : DropObserver(observer)
    \/ \E action \in {"Add", "Remove"}, details \in Details :
            PublishEvent(2, action, details)

SpecEvents == EventsInit /\ [][EventsNext]_vars

(* readdir_at and lookup on the same directories, over a tree that grows *)

RoundInit == Start({"tree", "lookup", "readdir"})

\* The branch z gets the leaf x or the symlink x as a child, whose name is also
\* the name of an attribute of z.
RoundNext ==
    \/ \E c \in {1, 2} : AddChild(0, c)
    \/ \E c \in {2, 3} : AddChild(1, c)
    \/ \E self \in DOMAIN inodes, name \in Names \cup {"y"} : Lookup(self, name)
    \/ \E self \in DOMAIN inodes, visitor \in {v \in Visitors : v.all} :
            ReaddirAt(self, 0, visitor)

SpecRound == RoundInit /\ [][RoundNext]_vars

(* A readdir_at call on the root directory that runs next to add_child and
   remove_child calls on the root *)

ScanInit ==
    /\ Booted({"era"})
    /\ NEXT_ID = 4
    /\ bld = NoBuilder /\ ids = NoCalls /\ calc = NoCalc /\ walk = NoWalk
    /\ scan = NoScan
    /\ era = {} /\ race = NoRace

ScanNext ==
    \/ \E c \in NodeIds \ {0} : AddChild(0, c)
    \/ \E name \in {"z", "x"} : RemoveChild(0, name)
    \/ \E offset \in {0, 2} : ScanBegin(RootInode, offset)
    \/ ScanCollect
    \/ \E visitor \in {v \in Visitors : v.all} : ScanReturn(visitor)

SpecScan == ScanInit /\ [][ScanNext]_vars

(* An enumeration of one of three directories that nothing mutates *)

WalkInit ==
    /\ Booted({})
    /\ NEXT_ID = 4
    /\ bld = NoBuilder /\ ids = NoCalls /\ calc = NoCalc /\ scan = NoScan
    /\ walk = NoWalk
    /\ era = {} /\ race = NoRace

\* The controllers add z to the root and x to z, and a user looks up z in the
\* root directory and x in z's directory, before the enumeration begins.
WalkNext ==
    \/ walk.pc = "idle" /\ (AddChild(0, 1) \/ AddChild(1, 2))
    \/ walk.pc = "idle" /\ \E self \in DOMAIN inodes : Lookup(self, "z") \/ Lookup(self, "x")
    \/ \E self \in DOMAIN inodes : WalkBegin(self)
    \/ \E visitor \in Accepting : WalkCall(visitor)

SpecWalk == WalkInit /\ [][WalkNext]_vars

\* The caller goes on calling readdir_at.
SpecWalkFair == SpecWalk /\ WF_vars(\E visitor \in Accepting : WalkCall(visitor))

(* An enumeration of the root directory or of z's directory while add_child and
   remove_child are called on the root *)

StirInit ==
    /\ Booted({"era"})
    /\ NEXT_ID = 4
    /\ bld = NoBuilder /\ ids = NoCalls /\ calc = NoCalc /\ scan = NoScan
    /\ walk = NoWalk
    /\ era = {} /\ race = NoRace

StirNext ==
    \/ \E c \in {1, 2} : AddChild(0, c)
    \/ \E name \in {"z", "x"} : RemoveChild(0, name)
    \/ walk.pc = "idle" /\ Lookup(RootInode, "z")
    \/ \E self \in DOMAIN inodes : WalkBegin(self)
    \/ \E visitor \in Accepting : WalkCall(visitor)

SpecStir == StirInit /\ [][StirNext]_vars

(* The attribute set builder on its own: add calls, build, and a second builder
   that inherits the set built *)

AttrsInit ==
    /\ Booted({})
    /\ NEXT_ID = 4
    /\ \E debug_assertions \in BOOLEAN : bld = Opened(debug_assertions)
    /\ ids = NoCalls /\ calc = NoCalc /\ scan = NoScan /\ walk = NoWalk /\ era = {} /\ race = NoRace

\* A builder gets CAPACITY + MaxExtra attributes at most, and MaxOwn when it
\* inherits a set.
AttrsNext ==
    \/ /\ Len(bld.builder.this_set) <
            (IF bld.builder.parent_set = {} THEN CAPACITY + MaxExtra ELSE MaxOwn)
       /\ \E name \in AddNames, flags \in {{CAN_READ}, {CAN_READ, CAN_WRITE}} :
            /\ name = len(build(bld.builder)) => flags = FlagsFor(name)
            /\ Add(name, flags)
    \/ Build
    \/ WithParent

SpecAttrs == AttrsInit /\ [][AttrsNext]_vars

(* SysNodeId::new called by the threads, from a counter that earlier calls have
   left at the cast's four ids or near the largest id *)

IdsInit ==
    /\ Booted({})
    /\ NEXT_ID \in {4, U64_MAX \div 2 - 2, U64_MAX \div 2}
    /\ bld = NoBuilder /\ calc = NoCalc /\ scan = NoScan /\ walk = NoWalk /\ era = {} /\ race = NoRace
    /\ ids = NoCalls

IdsNext == \E t \in Threads : FetchAdd(t) \/ AssertAndReturn(t)

SpecIds == IdsInit /\ [][IdsNext]_vars

(* The inos of node ids and attribute ids *)

InosInit ==
    /\ Booted({})
    /\ NEXT_ID = 4
    /\ bld = NoBuilder /\ ids = NoCalls /\ scan = NoScan /\ walk = NoWalk /\ era = {} /\ race = NoRace
    /\ \E a, b \in IdSamples, attr_id \in 0..U8_MAX : calc = Drawn(a, b, attr_id)

InosNext == InoOf

SpecInos == InosInit /\ [][InosNext]_vars

(* Two threads add the leaf x and the symlink x to one branch, the root or z,
   while a reader asks the branch for x *)

RaceInit ==
    /\ Booted({})
    /\ NEXT_ID = 4
    /\ bld = NoBuilder /\ ids = NoCalls /\ calc = NoCalc /\ scan = NoScan
    /\ walk = NoWalk /\ era = {}
    /\ \E b \in {0, 1} : race = [NoRace EXCEPT !.on = b]

RaceNext ==
    \/ \E t \in Threads, new_child \in {2, 3} : AddChildCall(t, new_child)
    \/ \E t \in Threads : AddChildWrite(t) \/ AddChildCheck(t) \/ AddChildInsert(t)
    \/ \E op \in {"contains", "child"} : ReaderCall(op, "x")
    \/ ReaderRead
    \/ ContainsReturn
    \/ ChildReturn

SpecRace == RaceInit /\ [][RaceNext]_vars

----------------------------------------------------------------------------
(* Claims *)

HasAttr(node, name) ==
    \E i \in 1..Len(nodes[node].attr_set) : nodes[node].attr_set[i].name = name

\* The inode type that projects a node of the given type.
DirOrSymlink(node) == IF nodes[node].type = "Symlink" THEN "Symlink" ELSE "Dir"

\* The entries a readdir_at call reported: those its visitor accepted.
Reported(r) == {r.emitted[i] : i \in 1..r.count}

\* Whether the visitor of the call rejected an entry after it had accepted one.
RejectedLater(r) ==
    /\ r.op = "readdir_at" /\ r.res # "ENOTDIR"
    /\ ~r.visitor.all /\ 0 < r.visitor.n /\ r.visitor.n < Len(r.emitted)

\* C1: of two successive readdir_at calls on a directory inode, the second with
\* the offset o1 + ret1, the second reports no entry that the first reported,
\* whatever add_child and remove_child did in between.
C1_NoDuplicateAcrossCalls ==
    [][(/\ rd' # rd
        /\ rd.op = "readdir_at" /\ rd.res = "Ok"
        /\ rd'.on = rd.on
        /\ rd'.off = rd.off + rd.val)
            => Reported(rd) \cap Reported(rd') = {}]_vars

\* Where an entry stands in the order of a directory's entries: 1 an attribute,
\* 2 a child node, 3 ".", 4 "..".
Rank(d) ==
    CASE d.name = "." -> 3
      [] d.name = ".." -> 4
      [] d.type_ = "File" -> 1
      [] OTHER -> 2

\* C2: a readdir_at call on a directory inode delivers the attributes' entries in
\* the order of the attributes' ids, then (a Branch) the children's entries in
\* the order of the nodes' ids, then ".", then ".."; a Leaf directory delivers
\* no child's entry.
C2_EntryOrder ==
    (rd.op = "readdir_at" /\ rd.res # "ENOTDIR") =>
        /\ \A i, j \in 1..Len(rd.emitted) : i < j =>
                LET d == rd.emitted[i]
                    e == rd.emitted[j]
                IN  /\ Rank(d) <= Rank(e)
                    /\ Rank(d) = Rank(e) => Rank(d) \in {1, 2} /\ d.ino < e.ino
        /\ inodes[rd.on].inner_node.kind = "Leaf" =>
                \A i \in 1..Len(rd.emitted) : Rank(rd.emitted[i]) # 2

\* C2's case: a call on a branch's directory delivered two attributes, a child,
\* "." and "..".
C2_Witness ==
    /\ rd.op = "readdir_at" /\ rd.res = "Ok"
    /\ rd.count = 5
    /\ [i \in 1..5 |-> Rank(rd.emitted[i])] = << 1, 1, 2, 3, 4 >>

\* The entries whose ordering inode is no less than min_ino, for a call on the
\* directory inode on whose node had the children kids: by name and type.
Due(on, min_ino, kids) ==
    LET sysnode == inodes[on].inner_node.node
        attrs == nodes[sysnode].attr_set
    IN  {<< attrs[i].name, "File" >> :
            i \in {k \in 1..Len(attrs) : ino(on) + attrs[k].id >= min_ino}}
        \cup (IF inodes[on].inner_node.kind = "Branch"
              THEN {<< n, DirOrSymlink(kids[n]) >> :
                        n \in {m \in DOMAIN kids : kids[m] * 2^ATTR_INO_SHIFT >= min_ino}}
              ELSE {})
        \cup (IF min_ino <= U64_MAX - 2 THEN {<< ".", "Dir" >>} ELSE {})
        \cup (IF min_ino <= U64_MAX - 1 THEN {<< "..", "Dir" >>} ELSE {})

\* C3: readdir_at(min_ino) emits an entry if and only if its ordering inode is no
\* less than min_ino: this.ino + attr.id for an attribute, child.id << 8 for a
\* child, U64_MAX - 2 for "." and U64_MAX - 1 for "..".
C3_EmitsFromMinIno ==
    (rd.op = "readdir_at" /\ rd.res # "ENOTDIR") =>
        {<< rd.emitted[i].name, rd.emitted[i].type_ >> : i \in 1..Len(rd.emitted)}
            = Due(rd.on, rd.off, rd.kids)

\* C4: a readdir_at(min_ino) call whose visitor accepts every entry and whose
\* last entry is ".." returns r with min_ino + r = U64_MAX.
C4_ReturnLeadsToMax ==
    (/\ rd.op = "readdir_at"
     /\ rd.count = Len(rd.emitted) /\ Len(rd.emitted) > 0
     /\ rd.emitted[Len(rd.emitted)].name = "..")
        => rd.res = "Ok" /\ rd.off + rd.val = U64_MAX

\* C5: when the visitor rejects the first entry offered, readdir_at fails with
\* INVALID; when it rejects a later entry, the call stops and succeeds, and the
\* next call at min_ino + the returned increment, the tree unchanged, resumes at
\* the rejected entry.
C5_ResumeAtRejected ==
    [][/\ (/\ rd.op = "readdir_at" /\ rd.res # "ENOTDIR"
           /\ ~rd.visitor.all /\ rd.visitor.n = 0 /\ Len(rd.emitted) > 0)
                => rd.res = "EINVAL"
       /\ RejectedLater(rd) => rd.res = "Ok" /\ rd.count = rd.visitor.n
       /\ (/\ rd' # rd
           /\ RejectedLater(rd) /\ rd.res = "Ok"
           /\ rd'.on = rd.on /\ rd'.off = rd.off + rd.val
           /\ rd'.kids = rd.kids)
                => /\ Len(rd'.emitted) > 0
                   /\ rd'.emitted[1].name = rd.emitted[rd.count + 1].name
                   /\ rd'.emitted[1].type_ = rd.emitted[rd.count + 1].type_]_vars

\* C6: lookup(name), name other than "." and "..": NOT_DIR on an attribute file or
\* a symlink; on a Branch inode the projection of the child of that name (a
\* directory for a Branch or Leaf child, a symlink for a Symlink child), else the
\* file inode of the attribute of that name, else NOT_FOUND; on a Leaf inode the
\* attribute's file inode or NOT_FOUND.
C6_LookupProtocol ==
    (ret.op = "lookup" /\ ret.name \notin {".", ".."}) =>
        LET inner == inodes[ret.on].inner_node
            found == inodes[ret.val]
        IN  CASE inner.kind \in {"Attr", "Symlink"} -> ret.res = "ENOTDIR"
              [] inner.kind = "Branch" /\ ret.saw.held # 0 ->
                    /\ ret.res = "Ok"
                    /\ found.inner_node = [kind |-> nodes[ret.saw.held].type,
                                           node |-> ret.saw.held, attr |-> None]
                    /\ found.metadata.type_ = DirOrSymlink(ret.saw.held)
              [] OTHER ->
                    IF HasAttr(inner.node, ret.name)
                    THEN /\ ret.res = "Ok"
                         /\ found.inner_node = [kind |-> "Attr", node |-> inner.node,
                                                attr |-> ret.name]
                         /\ found.metadata.type_ = "File"
                    ELSE ret.res = "ENOENT"

\* C6's case: a lookup on a branch that has a child and an attribute of the same
\* name returned the child's projection.
C6_Witness ==
    /\ ret.op = "lookup" /\ ret.res = "Ok"
    /\ ret.saw.held # 0
    /\ HasAttr(inodes[ret.on].inner_node.node, ret.name)
    /\ inodes[ret.val].inner_node.node = ret.saw.held

\* C7 as stated, for the inodes lookup made that are directories: lookup(".") is
\* this inode, lookup("..") on the root is the root, and lookup("..") on an inode
\* that a lookup on d made returns an inode with d's ino and never the inode itself.
C7_ParentAtAnyLaterTime ==
    (ret.op = "lookup" /\ type_(ret.on) = "Dir") =>
        /\ ret.name = "." => ret.res = "Ok" /\ ret.val = ret.on
        /\ (ret.name = ".." /\ ret.on = RootInode) => ret.res = "Ok" /\ ret.val = RootInode
        /\ (ret.name = ".." /\ made_by[ret.on] # NoParent) =>
                /\ ret.res = "Ok"
                /\ ino(ret.val) = ino(made_by[ret.on])
                /\ ret.val # ret.on

\* C7 amended: lookup(".") on a directory inode is this inode; lookup("..") on the
\* root is the root; lookup("..") on a directory inode that a lookup on d made is
\* d while d is alive and the inode itself once d was dropped; on an inode that is
\* no directory both fail with NOT_DIR.
C7_ParentWhileAlive ==
    (ret.op = "lookup" /\ ret.name \in {".", ".."}) =>
        IF type_(ret.on) # "Dir" THEN ret.res = "ENOTDIR"
        ELSE /\ ret.res = "Ok"
             /\ ret.name = "." => ret.val = ret.on
             /\ (ret.name = ".." /\ ret.on = RootInode) => ret.val = RootInode
             /\ (ret.name = ".." /\ made_by[ret.on] # NoParent) =>
                    ret.val = IF ret.saw.maker_alive THEN made_by[ret.on] ELSE ret.on

\* C7's case: lookup("..") on a directory whose maker was alive returned the maker.
C7_Witness ==
    /\ ret.op = "lookup" /\ ret.name = ".." /\ ret.res = "Ok"
    /\ made_by[ret.on] # NoParent
    /\ ret.saw.maker_alive
    /\ ret.val = made_by[ret.on]
    /\ ret.val # RootInode

\* C8 as stated, for the names of nodes: a lookup(n) on a directory inode of branch
\* b that follows remove_child(n) on b, with no add_child of a node named n on b
\* in between, fails with NOT_FOUND.
C8_NotFoundAfterRemove ==
    (ret.op = "lookup" /\ ret.saw.after_remove /\ ret.name \notin {".", ".."}) =>
        ret.res = "ENOENT"

\* C8 amended: such a lookup(n), n other than "." and "..", never returns a child's
\* projection: it fails with NOT_FOUND unless b has an attribute named n, and then
\* returns that attribute's file inode.
C8_NoChildAfterRemove ==
    (ret.op = "lookup" /\ ret.saw.after_remove /\ ret.name \notin {".", ".."}) =>
        LET b == inodes[ret.on].inner_node.node IN
        IF HasAttr(b, ret.name)
        THEN /\ ret.res = "Ok"
             /\ inodes[ret.val].inner_node = [kind |-> "Attr", node |-> b, attr |-> ret.name]
        ELSE ret.res = "ENOENT"

\* C8's case: a lookup of the name of a child that remove_child had removed failed
\* with NOT_FOUND.
C8_Witness ==
    /\ ret.op = "lookup" /\ ret.saw.after_remove /\ ret.res = "ENOENT"
    /\ gone.node # 0 /\ gone.name = ret.name
    /\ gone.on = inodes[ret.on].inner_node.node

\* C9: add_child of a node whose name the branch already holds fails with
\* ALREADY_EXISTS and leaves the child map as it was; the children of a branch
\* have pairwise distinct names; remove_child returns the node the map held under
\* the name, a node of that name, or None.
C9_UniqueChildNames ==
    /\ (ret.op = "add_child" /\ ret.name \in DOMAIN ret.saw.kids) =>
            ret.res = "ALREADY_EXISTS" /\ children[ret.on] = ret.saw.kids
    /\ \A b \in Branches : \A k1, k2 \in DOMAIN children[b] :
            k1 # k2 => /\ children[b][k1] # children[b][k2]
                       /\ nodes[children[b][k1]].name # nodes[children[b][k2]].name
    /\ ret.op = "remove_child" =>
            IF ret.name \in DOMAIN ret.saw.kids
            THEN /\ ret.res = "Some"
                 /\ ret.val = ret.saw.kids[ret.name]
                 /\ nodes[ret.val].name = ret.name
            ELSE ret.res = "None"

\* C9's case: add_child of a second node with the name of a child was refused.
C9_Witness ==
    /\ ret.op = "add_child" /\ ret.res = "ALREADY_EXISTS"
    /\ ret.saw.kids[ret.name] # ret.node
    /\ children[ret.on][ret.name] = ret.saw.kids[ret.name]

ChildrenOf(b) == {children[b][k] : k \in DOMAIN children[b]}

ParentsOf(n) == {b \in Branches : n \in ChildrenOf(b)}

RECURSIVE Below(_, _)
\* The nodes reached from the set S through at most n more child maps.
Below(S, n) ==
    IF n = 0 THEN S
    ELSE Below(S \cup UNION {ChildrenOf(b) : b \in S}, n - 1)

Descendants(b) == Below(ChildrenOf(b), Cardinality(NodeIds))

\* C10: every node is in the child map of at most one branch, and no branch is its
\* own ancestor.
C10_OneParentNoCycle ==
    /\ \A n \in NodeIds : Cardinality(ParentsOf(n)) <= 1
    /\ \A b \in Branches : b \notin Descendants(b)

\* The inode numbers of the attributes of a node.
AttrInos(n) ==
    {from_dir_ino_and_attr_id(from_sysnode_id(n), nodes[n].attr_set[i].id) :
        i \in 1..Len(nodes[n].attr_set)}

\* C11: the inode number of every node is a multiple of 256; the attributes of a
\* branch have pairwise distinct inode numbers, none of which is the inode
\* number of a child of the branch.
C11_InoLayout ==
    /\ \A n \in NodeIds : from_sysnode_id(n) % 256 = 0
    /\ \A b \in Branches :
            /\ Cardinality(AttrInos(b)) = Len(nodes[b].attr_set)
            /\ \A c \in ChildrenOf(b) : from_sysnode_id(c) \notin AttrInos(b)

\* The object of the model an inode stands for: a node, or an attribute of a node.
ModelObject(h) == inodes[h].inner_node

\* The id of the attribute an attribute file stands for.
AttrIdOf(h) ==
    LET attrs == nodes[inodes[h].inner_node.node].attr_set
    IN  attrs[CHOOSE i \in 1..Len(attrs) : attrs[i].name = inodes[h].inner_node.attr].id

\* C12: two inodes that stand for different objects of the model never have the
\* same inode number and the same type; when they have the same inode number,
\* one is the directory of a Branch or Leaf node and the other the file of that
\* node's attribute with id 0.
C12_InoAndTypeTellApart ==
    \A g, h \in DOMAIN inodes :
        (ModelObject(g) # ModelObject(h) /\ ino(g) = ino(h)) =>
            /\ type_(g) # type_(h)
            /\ LET dir == IF type_(g) = "Dir" THEN g ELSE h
                   file == IF type_(g) = "Dir" THEN h ELSE g
               IN  /\ type_(dir) = "Dir" /\ type_(file) = "File"
                   /\ ModelObject(dir).kind \in {"Branch", "Leaf"}
                   /\ ModelObject(file).kind = "Attr"
                   /\ ModelObject(file).node = ModelObject(dir).node
                   /\ AttrIdOf(file) = 0
                   /\ ino(dir) = from_sysnode_id(ModelObject(dir).node)

\* C12's case: the directory of a node and the file of its attribute with id 0
\* are both allocated and have the same inode number.
C12_Witness ==
    \E g, h \in DOMAIN inodes :
        /\ type_(g) = "Dir" /\ type_(h) = "File"
        /\ ModelObject(h).node = ModelObject(g).node
        /\ ino(g) = ino(h)

\* The kind of error of the specification's taxonomy that an errno stands for.
Kind(errno) ==
    CASE errno = "EOPNOTSUPP" -> "NOT_SUPPORTED"
      [] errno = "EPERM" -> "NOT_PERMITTED"
      [] errno = "EINVAL" -> "INVALID"
      [] errno = "ENOENT" -> "NOT_FOUND"
      [] errno = "ENOTDIR" -> "NOT_DIR"
      [] OTHER -> errno

\* C13: create, mknod, link, unlink, rename, write_link, ioctl, fallocate and
\* resize, on any inode, fail with NOT_SUPPORTED; none of them succeeds.
C13_NotSupported ==
    out.op \in {"create", "mknod", "link", "unlink", "rename", "write_link", "ioctl",
                "fallocate", "resize"}
        => Kind(out.res) = "NOT_SUPPORTED"

\* C14: a call of an inode operation other than write_at (lookup, readdir_at,
\* read_at, read_link, set_mode, set_owner, set_group, create, mknod, link,
\* unlink, rename, sync_all, sync_data) leaves every branch's child map and every
\* node's attribute set, id and name as they were.
C14_ViewLeavesTree == [][ViewCall => UNCHANGED <<nodes, children>>]_vars

\* A set_mode was called on the directory of a branch that has a child, with an
\* inode of that child and the file of an attribute around.
C14_Witness ==
    \E h \in DOMAIN inodes :
        /\ mode(h) = 0
        /\ inodes[h].inner_node.kind = "Branch"
        /\ children[inodes[h].inner_node.node] # EmptyMap
        /\ \E g \in DOMAIN inodes : inodes[g].inner_node.kind = "Attr"

\* C15: read_at and write_at on an inode that is no attribute file fail with
\* INVALID and leave the nodes' values alone; on an attribute file they return
\* what the node's read_attr / write_attr returns for the attribute's name,
\* whatever the offset, and write what write_attr writes; read_link returns the
\* node's target path on a symlink inode and fails on any other inode.
C15_AttrIoOnlyOnAttr ==
    [][out' # out =>
        LET c == out'
            inner == inodes[c.on].inner_node
        IN  /\ (c.op \in {"read_at", "write_at"} /\ inner.kind # "Attr")
                    => (Kind(c.res) = "INVALID" /\ vals' = vals)
            /\ (c.op = "read_at" /\ inner.kind = "Attr")
                    => (Res(c.res, c.val) = read_attr(inner.node, inner.attr)
                        /\ vals' = vals)
            /\ (c.op = "write_at" /\ inner.kind = "Attr")
                    => (/\ c.res = write_attr(inner.node, inner.attr, c.buf).res
                        /\ vals' = write_attr(inner.node, inner.attr, c.buf).vals)
            /\ (c.op = "read_link" /\ inner.kind = "Symlink")
                    => (c.res = "Ok" /\ c.text = nodes[inner.node].target_path)
            /\ (c.op = "read_link" /\ inner.kind # "Symlink")
                    => Kind(c.res) = "INVALID"]_vars

\* A write_at with a non-zero offset changed the value of an attribute.
C15_Witness ==
    /\ out.op = "write_at" /\ out.arg # 0
    /\ out.res = "Ok" /\ out.after # out.before

\* The flags of a node's attribute of the given name.
FlagsOf(sysnode, name) ==
    (CHOOSE attr \in get(nodes[sysnode].attr_set, name) : TRUE).flags

\* The mode of the file of an attribute with the given flags.
ModeOf(flags) ==
    CASE flags = {CAN_READ} -> Octal(4, 0, 0)
      [] flags = {CAN_WRITE} -> Octal(2, 0, 0)
      [] flags = {CAN_READ, CAN_WRITE} -> Octal(6, 0, 0)
      [] OTHER -> 0

\* Whether the call noted was made on an attribute whose only flag is CAN_READ:
\* a node's read_attr / write_attr, or read_at / write_at on the attribute's file.
OnReadOnly(c) ==
    \/ /\ c.op \in {"read_attr", "write_attr"}
       /\ HasAttr(c.on, c.name)
       /\ FlagsOf(c.on, c.name) = {CAN_READ}
    \/ /\ c.op \in {"read_at", "write_at"}
       /\ inodes[c.on].inner_node.kind = "Attr"
       /\ FlagsOf(inodes[c.on].inner_node.node, inodes[c.on].inner_node.attr)
                = {CAN_READ}

\* C16: a write of an attribute whose only flag is CAN_READ, by write_attr or by
\* write_at on its file, fails with NOT_PERMITTED and leaves the value as it
\* was, while a read of it succeeds with the value; the file of an attribute has
\* the mode 0o400 for CAN_READ, 0o200 for CAN_WRITE and 0o600 for both.
C16_ReadOnlyAttr ==
    /\ (OnReadOnly(out) /\ out.op \in {"write_attr", "write_at"})
            => (Kind(out.res) = "NOT_PERMITTED" /\ out.after = out.before)
    /\ (OnReadOnly(out) /\ out.op \in {"read_attr", "read_at"})
            => (out.res = "Ok" /\ out.val = out.before)
    /\ \A h \in DOMAIN inodes :
            inodes[h].inner_node.kind = "Attr"
                => mode(h) = ModeOf(FlagsOf(inodes[h].inner_node.node,
                                            inodes[h].inner_node.attr))
    /\ \A flags \in (SUBSET {CAN_READ, CAN_WRITE}) \ {{}} :
            flags_to_inode_mode(flags) = ModeOf(flags)

\* A write_at was called on the file (mode 0o400) of an attribute whose only
\* flag is CAN_READ, with another value than the one the node keeps.
C16_Witness ==
    /\ out.op = "write_at" /\ OnReadOnly(out)
    /\ mode(out.on) = Octal(4, 0, 0)
    /\ out.buf # out.before

\* C20: no call changes an inode's metadata (ino, type, atime, mtime, ctime, uid,
\* gid, size); an inode's mode changes only in a set_mode call on it, after
\* which mode() is the mode passed; set_owner and set_group fail with
\* NOT_PERMITTED.
C20_OnlyModeChanges ==
    [][\A h \in DOMAIN inodes :
        /\ inodes'[h].metadata = metadata(h)
        /\ inodes'[h].mode # mode(h)
                => (out'.op = "set_mode" /\ out'.on = h /\ out'.res = "Ok")
        /\ (out' # out /\ out'.op = "set_mode" /\ out'.on = h)
                => (out'.res = "Ok" /\ inodes'[h].mode = out'.arg)
        /\ (out' # out /\ out'.op \in {"set_owner", "set_group"})
                => Kind(out'.res) = "NOT_PERMITTED"]_vars

\* A set_atime with another time than the inode's atime was called on an inode
\* whose mode a set_mode had changed.
C20_Witness ==
    /\ out.op = "set_atime" /\ out.arg # atime(out.on)
    /\ mode(out.on) = 0

\* Whether a selector admits an action: All admits every action, Action(b) the
\* action b only.
Admits(selector, action) == selector = All \/ selector = Action(action)

\* What an observer holds of the publish_event call noted in log.
Got(box, call) == {i \in 1..Len(box) : box[i].n = call.n}

\* C17: a publish_event call on a node that has a path is delivered to an
\* observer that is registered and alive if and only if the observer's selector
\* admits the action, and what the observer receives is the event of the node's
\* path and of the action and the details passed.
C17_DeliveredIffAdmitted ==
    [][(log'.n # log.n /\ path(log'.obj) # {}) =>
        \A o \in DOMAIN subject \cap live :
            /\ Admits(subject[o], log'.action) <=> Got(inbox'[o], log') # {}
            /\ \A i \in Got(inbox'[o], log') :
                    inbox'[o][i].event =
                        SysEvent(log'.action, CHOOSE p \in path(log'.obj) : TRUE,
                                 log'.details)]_vars

\* The publish_event call noted had a path and details; the first observer
\* holds its event, the second, registered and alive too, holds nothing.
C17_Witness ==
    /\ log.n > 0 /\ log.had_path /\ log.details # << >>
    /\ {"o1", "o2"} \subseteq DOMAIN subject \cap live
    /\ Got(inbox["o1"], log) # {}
    /\ inbox["o2"] = << >>
    /\ subject["o2"] # All

C19_InPublishOrder ==
    \A o \in Observers :
        \A i, j \in 1..Len(inbox[o]) :
            i < j => inbox[o][i].n < inbox[o][j].n

\* An observer holds the events of two publish_event calls.
C19_Witness ==
    \E o \in Observers : Len(inbox[o]) >= 2 /\ inbox[o][1].event # inbox[o][2].event

\* The chains of child maps that lead from the root to a node: the nodes from a
\* child of the root down to the node, each a child of the one before it.
ChainsTo(n) ==
    {c \in UNION {[1..k -> NodeIds \ {0}] : k \in 1..Cardinality(Branches)} :
        /\ c[Len(c)] = n
        /\ c[1] \in ChildrenOf(0)
        /\ \A i \in 1..(Len(c) - 1) : c[i] \in Branches /\ c[i + 1] \in ChildrenOf(c[i])
        /\ \A i, j \in 1..Len(c) : i # j => c[i] # c[j]}

\* The names of the nodes of a chain.
NamesOf(c) == [i \in 1..Len(c) |-> nodes[c[i]].name]

\* C21: after any add_child and remove_child calls, path() of a node that a chain
\* of child maps leads to from the root is the names of the nodes of the chain,
\* and path() of a node that no chain leads to is None.
C21_PathIsChain ==
    \A n \in NodeIds \ {0} :
        IF ChainsTo(n) = {} THEN path(n) = {}
        ELSE \A c \in ChainsTo(n) : path(n) = {NamesOf(c)}

\* The attributes of the set the builder would be built into.
Held(b) == all_attrs(build(b.builder))

\* A step is an add call: it was made on an open builder, and it returned or
\* panicked.
IsAdd(b, after) == b.pc = "open" /\ after.pc \in {"open", "panicked"}

\* The names and the ids of a sequence of attributes are pairwise distinct, and
\* the ids are 0, 1, ... in the order of the sequence.
Dense(seq) ==
    /\ Cardinality({seq[i].name : i \in 1..Len(seq)}) = Len(seq)
    /\ Cardinality({seq[i].id : i \in 1..Len(seq)}) = Len(seq)
    /\ \A i \in 1..Len(seq) : seq[i].id = i - 1

\* C22: after every add call that returns, on a builder with or without an
\* inherited set, the set the builder is built into has pairwise distinct names
\* and ids, the ids are 0..len()-1 in insertion order with the inherited
\* attributes first, get(name) of the name added is Some, and a name that was
\* present keeps its earlier id and flags.
C22_BuilderYieldsSet ==
    [][(IsAdd(bld, bld') /\ bld'.last.res = "Ok") =>
        LET before == Held(bld)
            after == Held(bld')
            name == bld'.last.name
        IN  /\ Dense(after)
            /\ len(build(bld'.builder)) = Len(after)
            /\ SubSeq(after, 1, Len(before)) = before
            /\ get(after, name) # {}
            /\ get(before, name) # {} => after = before]_vars

\* C26: a set holds at most CAPACITY attributes; an add of a name that is not
\* present succeeds while fewer than CAPACITY are held, inherited ones included,
\* and gives the name the next id, which fits in u8; with CAPACITY attributes
\* held, such an add is fatal.
C26_Capacity ==
    [][IsAdd(bld, bld') =>
        LET before == Held(bld)
            after == Held(bld')
            call == bld'.last
        IN  /\ Len(after) <= CAPACITY
            /\ get(before, call.name) = {} =>
                IF Len(before) < CAPACITY
                THEN /\ call.res = "Ok"
                     /\ after = Append(before,
                                       SysAttr(Len(before), call.name, call.flags))
                     /\ Len(before) <= U8_MAX
                ELSE call.res = "panic"]_vars

\* The calls of SysNodeId::new that have returned: the thread and the number of
\* the call within the thread.
Returned == {c \in Threads \X (1..MaxCalls) : c[2] <= Len(ids[c[1]].got)}

\* C23: any two calls of SysNodeId::new, racing ones included, return different
\* values, a later call of a thread returns a larger value than an earlier one,
\* no value returned exceeds U64_MAX / 2, and a call panics instead of returning
\* only when its value would exceed it.
C23_IdsUnique ==
    /\ \A c, d \in Returned : c # d => ids[c[1]].got[c[2]] # ids[d[1]].got[d[2]]
    /\ \A c, d \in Returned :
            (c[1] = d[1] /\ c[2] < d[2]) => ids[c[1]].got[c[2]] < ids[d[1]].got[d[2]]
    /\ \A c \in Returned : ids[c[1]].got[c[2]] <= U64_MAX \div 2
    /\ \A t \in Threads : ids[t].pc = "panicked" => ids[t].next_id > U64_MAX \div 2

\* Two calls raced at the limit: one thread fetched before the other and
\* returned after it, the largest id was returned, and the next call panicked.
C23_Witness ==
    \E t, u \in Threads :
        /\ Len(ids[t].got) >= 2 /\ Len(ids[u].got) >= 1
        /\ ids[t].got[1] < ids[u].got[1] /\ ids[u].got[1] < ids[t].got[2]
        /\ ids[t].got[2] = U64_MAX \div 2
        /\ ids[u].pc = "panicked"

\* C25: the ino of a node grows with the node's id, for ids up to U64_MAX / 2,
\* and neither the ino of a node nor the ino of an attribute of a node is one of
\* the inos of the special entries.
C25_InoMonotone ==
    calc.pc = "done" =>
        /\ calc.a < calc.b => calc.ino_a < calc.ino_b
        /\ {calc.ino_a, calc.attr_ino} \cap {THIS_DENTRY_INO, PARENT_DENTRY_INO} = {}

\* C27: in every readdir_at call that accepted an entry, the ino of the last
\* entry accepted, plus one, is no less than min_ino and no more than U64_MAX, so
\* the subtraction that gives the return value does not go below zero.
C27_NoUnderflow ==
    (rd.op = "readdir_at" /\ rd.count >= 1) =>
        LET last_dentry_ino == rd.emitted[rd.count].ino
        IN  /\ last_dentry_ino + 1 >= rd.off
            /\ last_dentry_ino + 1 <= U64_MAX
            /\ rd.res = "Ok"

\* C30: when lookup(name) follows a readdir_at on the same directory inode that
\* reported an entry of that name, the tree unchanged, the lookup succeeds and
\* returns an inode with the ino and the type of the entry; and two lookups of a
\* name on an inode, the tree unchanged, return inodes of the same ino and type.
C30_LookupAgrees ==
    [][/\ (/\ ret' # ret /\ ret'.op = "lookup"
           /\ rd.op = "readdir_at" /\ rd.res = "Ok" /\ rd.on = ret'.on
           /\ rd.kids = children[inodes[rd.on].inner_node.node])
            => \A e \in Reported(rd) : e.name = ret'.name =>
                    /\ ret'.res = "Ok"
                    /\ inodes'[ret'.val].metadata.ino = e.ino
                    /\ inodes'[ret'.val].metadata.type_ = e.type_
       /\ (/\ ret' # ret /\ ret'.op = "lookup"
           /\ ret.op = "lookup" /\ ret.res = "Ok"
           /\ ret'.on = ret.on /\ ret'.name = ret.name)
            => /\ ret'.res = "Ok"
               /\ inodes'[ret'.val].metadata.ino = inodes[ret.val].metadata.ino
               /\ inodes'[ret'.val].metadata.type_ = inodes[ret.val].metadata.type_]_vars

\* An entry that readdir_at reported on the inode on is hidden from lookup: it is
\* the entry of an attribute whose name is also the name of a child of the branch.
Hidden(on, e) ==
    /\ e.type_ = "File"
    /\ inodes[on].inner_node.kind = "Branch"
    /\ e.name \in DOMAIN children[inodes[on].inner_node.node]

\* The agreement of C30 for every entry that readdir_at reports other than the
\* entry of an attribute whose name is also the name of a child.
C30_LookupAgreesUnlessHidden ==
    [][/\ (/\ ret' # ret /\ ret'.op = "lookup"
           /\ rd.op = "readdir_at" /\ rd.res = "Ok" /\ rd.on = ret'.on
           /\ rd.kids = children[inodes[rd.on].inner_node.node])
            => \A e \in Reported(rd) : (e.name = ret'.name /\ ~Hidden(rd.on, e)) =>
                    /\ ret'.res = "Ok"
                    /\ inodes'[ret'.val].metadata.ino = e.ino
                    /\ inodes'[ret'.val].metadata.type_ = e.type_
       /\ (/\ ret' # ret /\ ret'.op = "lookup"
           /\ ret.op = "lookup" /\ ret.res = "Ok"
           /\ ret'.on = ret.on /\ ret'.name = ret.name)
            => /\ ret'.res = "Ok"
               /\ inodes'[ret'.val].metadata.ino = inodes[ret.val].metadata.ino
               /\ inodes'[ret'.val].metadata.type_ = inodes[ret.val].metadata.type_]_vars

\* A readdir_at on z's directory reported the attribute x and the child x, and
\* the lookup of x that followed returned the inode of the child.
C30_Witness ==
    /\ rd.op = "readdir_at" /\ rd.res = "Ok"
    /\ ret.op = "lookup" /\ ret.res = "Ok" /\ ret.on = rd.on
    /\ rd.kids = children[inodes[rd.on].inner_node.node]
    /\ \E e, f \in Reported(rd) :
        /\ e.name = ret.name /\ f.name = ret.name
        /\ Hidden(rd.on, e) /\ ~Hidden(rd.on, f)
        /\ inodes[ret.val].metadata.ino = f.ino
        /\ inodes[ret.val].metadata.type_ = f.type_

\* The entries of the children that a child map holds for the node of the inode
\* on and that a readdir_at(min_ino) call keeps: by name and ino.
ChildEntries(kids, on, min_ino) ==
    LET map == kids[inodes[on].inner_node.node]
    IN  IF inodes[on].inner_node.kind # "Branch" THEN {}
        ELSE {<< n, from_sysnode_id(map[n]) >> :
                n \in {m \in DOMAIN map : map[m] >= min_ino}}

\* C24: the child entries that one readdir_at call delivers are those of the
\* branch's child map at one instant between the call and its return, whatever
\* add_child and remove_child calls ran next to it.
C24_OneInstant ==
    scan.pc = "returned" =>
        \E kids \in era :
            {<< e.name, e.ino >> :
                e \in {d \in {scan.outcome.emitted[i] :
                                i \in 1..Len(scan.outcome.emitted)} : Rank(d) = 2}}
                = ChildEntries(kids, scan.on, scan.off)

\* A call returned that delivered a child, while the child map changed twice
\* during the call and holds other children at the return than were delivered.
C24_Witness ==
    /\ scan.pc = "returned"
    /\ Cardinality(era) >= 3
    /\ scan.child_nodes # << >>
    /\ ChildEntries(children, scan.on, scan.off)
            # {<< nodes[scan.child_nodes[i]].name, from_sysnode_id(scan.child_nodes[i]) >> :
                    i \in 1..Len(scan.child_nodes)}

\* C28: on a directory that is not mutated, a caller that starts at offset 0,
\* adds each value returned to its offset and accepts at least one entry per
\* call reaches a call that returns 0, and every later call with that offset
\* returns 0 and reports nothing.
C28_Terminates ==
    /\ (walk.pc = "going") ~> (walk.pc = "done")
    /\ [](walk.later => walk.last.res = "Ok" /\ walk.last.val = 0 /\ walk.last.count = 0)

\* The children that the node of the enumerated directory held all through the
\* enumeration, as entries by name and type.
Stable ==
    LET b == inodes[walk.on].inner_node.node IN
    IF inodes[walk.on].inner_node.kind # "Branch" THEN {}
    ELSE {<< n, DirOrSymlink(children[b][n]) >> :
            n \in {m \in DOMAIN children[b] :
                    \A kids \in era : m \in DOMAIN kids[b] /\ kids[b][m] = children[b][m]}}

\* C29: when an enumeration that started at offset 0 has ended with a call that
\* returned 0, every attribute of the directory's node, every child that the
\* child map held all through the enumeration, "." and ".." have each been
\* reported exactly once.
C29_EachOnce ==
    (walk.pc = "done" /\ ~walk.later) =>
        LET attr_set == nodes[inodes[walk.on].inner_node.node].attr_set
            due == {<< attr_set[i].name, "File" >> : i \in 1..Len(attr_set)}
                        \cup Stable \cup {<< ".", "Dir" >>, << "..", "Dir" >>}
        IN  due \subseteq walk.once

\* C31: the names that one complete readdir_at listing of a directory reports
\* (offset 0, a visitor that accepts every entry) are pairwise distinct, also
\* when a child of the branch has the name of one of the branch's attributes.
C31_DistinctNames ==
    (rd.op = "readdir_at" /\ rd.res = "Ok" /\ rd.off = 0 /\ rd.visitor.all) =>
        \A i, j \in 1..rd.count :
            i # j => rd.emitted[i].name # rd.emitted[j].name

\* The threads whose add_child call has returned the result res.
Ended(res) ==
    {t \in Threads : race.adds[t].pc = "returned" /\ race.adds[t].res = res}

\* C32: of two add_child calls that two threads make on one branch with two
\* nodes of one name, one returns Ok and the other ALREADY_EXISTS, the child map
\* then holds the node of the call that returned Ok, and a contains or a lookup
\* for the name that runs next to them finds no child or that node, never the
\* node of the rejected call.
C32_OneWins ==
    LET name == nodes[2].name IN
    /\ Cardinality(Ended("Ok")) <= 1
    /\ Ended("ALREADY_EXISTS") # {} => Ended("Ok") # {}
    /\ (\A t \in Threads : race.adds[t].pc = "returned")
            => Cardinality(Ended("Ok")) = 1 /\ Cardinality(Ended("ALREADY_EXISTS")) = 1
    /\ \A t \in Ended("Ok") :
            /\ contains(race.on, name)
            /\ children[race.on][name] = race.adds[t].new_child
    /\ \A n \in UNION race.reader.held : \E t \in Ended("Ok") : n = race.adds[t].new_child
    /\ \A t \in Ended("ALREADY_EXISTS") : race.adds[t].new_child \notin UNION race.reader.held
    /\ TRUE \in race.reader.found => Ended("Ok") # {}

\* Both calls have returned, each was under way while the other was, the second
\* to be made returned Ok, and the reader's calls found no child before and the
\* node of the call that returned Ok after.
C32_Witness ==
    /\ \A t \in Threads : race.adds[t].pc = "returned"
    /\ \E t \in Ended("Ok") :
            /\ race.adds[t].met
            /\ race.reader.held = {{}, {race.adds[t].new_child}}
    /\ race.reader.found = {TRUE, FALSE}
====
